---- MODULE Spec2Model ----
(***************************************************************************)
(* Nested-set (MPTT) tree maintenance of mptt/managers.py (TreeManager).   *)
(*                                                                         *)
(* The state is the node table: one row per primary key with the columns   *)
(* parent, lft, rght, level and tree_id, together with the model's         *)
(* updates-enabled flag, its tracking flag and the set of tree ids the     *)
(* delayed-update scope has recorded.  Every public operation is one       *)
(* action; the SQL statements are row-wise maps whose right-hand sides     *)
(* read the values the row had before the statement.  The node and target  *)
(* objects handed to an operation are loaded from the table when the       *)
(* operation is called; root_node_ordering is enabled (integer tree ids)   *)
(* except where rebuild is given the setting, and no order_insertion_by is *)
(* declared.                                                               *)
(***************************************************************************)
EXTENDS Integers, Sequences, FiniteSets, TLC

VARIABLES store, mptt_updates_enabled, mptt_is_tracking, tracked, scope_ops, prev, last

vars == <<store, mptt_updates_enabled, mptt_is_tracking, tracked, scope_ops, prev, last>>

\* ------------------------------------------------------------------ bounds
MaxNodes == 4
MaxTreeId == 4
MaxScopeOps == 2

\* ------------------------------------------------------------- vocabulary
None == 0

Positions == {"first-child", "last-child", "left", "right"}

NodeIds == 1..MaxNodes

Max(S) == CHOOSE x \in S : \A y \in S : y <= x

Min(S) == CHOOSE x \in S : \A y \in S : x <= y

\* The rows of the table as a database handle: the table, whether the model
\* is tracking, and the tree ids recorded so far.
Db(s, tracking, ids) == [store |-> s, is_tracking |-> tracking, tracked |-> ids]

\* Model.objects.get(pk=pk): an in-memory instance with the stored values.
Load(s, pk) ==
    [pk |-> pk, parent |-> s[pk].parent, lft |-> s[pk].lft, rght |-> s[pk].rght,
     level |-> s[pk].level, tree_id |-> s[pk].tree_id]

\* A model instance that has not been saved: no primary key, no tree values.
\* The same record stands for a target of None.
NewNode == [pk |-> None, parent |-> None, lft |-> None, rght |-> None,
            level |-> None, tree_id |-> None]

RowOf(node) ==
    [parent |-> node.parent, lft |-> node.lft, rght |-> node.rght,
     level |-> node.level, tree_id |-> node.tree_id]

\* MPTTModel.is_root_node / is_child_node.
is_root_node(node) == node.parent = None

is_child_node(node) == ~is_root_node(node)

\* MPTTModel.get_descendant_count.
get_descendant_count(node) ==
    IF node.rght = None THEN 0 ELSE (node.rght - node.lft - 1) \div 2

\* MPTTModel.save of an instance whose tree values the manager has set up:
\* the row of the instance is written (a new instance gets the next key).
Save(db, node) ==
    LET s == db.store
        pk == IF node.pk = None THEN Cardinality(DOMAIN s) + 1 ELSE node.pk
    IN  [db EXCEPT !.store =
            [k \in (DOMAIN s) \cup {pk} |-> IF k = pk THEN RowOf(node) ELSE s[k]]]

\* MPTTModel._mptt_track_tree_modified.
mptt_track_tree_modified(db, tree_id) ==
    IF db.is_tracking THEN [db EXCEPT !.tracked = @ \cup {tree_id}] ELSE db

\* MPTTModel._mptt_track_tree_insertions: the recorded ids follow the shift
\* of the stored ids.
mptt_track_tree_insertions(db, tree_id, num_inserted) ==
    IF db.is_tracking
    THEN [db EXCEPT !.tracked =
            {IF t >= tree_id THEN t + num_inserted ELSE t : t \in @}]
    ELSE db

\* manage_space that shifts both values of every row it selects.
manage_space_whole_row(db, size, target, tree_id) ==
    IF db.is_tracking
    THEN mptt_track_tree_modified(db, tree_id)
    ELSE LET s == db.store
         IN  [db EXCEPT !.store =
                [k \in DOMAIN s |->
                    IF s[k].tree_id = tree_id /\ (s[k].lft > target \/ s[k].rght > target)
                    THEN [s[k] EXCEPT !.lft = s[k].lft + size, !.rght = s[k].rght + size]
                    ELSE s[k]]]

\* manage_space with the target point itself shifted (>= for >).
manage_space_inclusive(db, size, target, tree_id) ==
    IF db.is_tracking
    THEN mptt_track_tree_modified(db, tree_id)
    ELSE LET s == db.store
         IN  [db EXCEPT !.store =
                [k \in DOMAIN s |->
                    IF s[k].tree_id = tree_id /\ (s[k].lft >= target \/ s[k].rght >= target)
                    THEN [s[k] EXCEPT
                            !.lft = IF s[k].lft >= target THEN s[k].lft + size ELSE s[k].lft,
                            !.rght = IF s[k].rght >= target THEN s[k].rght + size ELSE s[k].rght]
                    ELSE s[k]]]

\* ------------------------------------------------------------ SpaceManager
manage_space(db, size, target, tree_id) ==
    IF db.is_tracking
    THEN mptt_track_tree_modified(db, tree_id)
    ELSE LET s == db.store
         IN  [db EXCEPT !.store =
                [k \in DOMAIN s |->
                    IF s[k].tree_id = tree_id /\ (s[k].lft > target \/ s[k].rght > target)
                    THEN [s[k] EXCEPT
                            !.lft = IF s[k].lft > target THEN s[k].lft + size ELSE s[k].lft,
                            !.rght = IF s[k].rght > target THEN s[k].rght + size ELSE s[k].rght]
                    ELSE s[k]]]

\* close_gap that opens the gap instead of closing it.
close_gap_opens(db, size, target, tree_id) ==
    manage_space(db, size, target, tree_id)

close_gap(db, size, target, tree_id) ==
    manage_space(db, -size, target, tree_id)

create_space(db, size, target, tree_id) == manage_space(db, size, target, tree_id)

\* create_tree_space that makes room for one tree whatever num_trees is.
create_tree_space_by_one(db, target_tree_id, num_trees) ==
    LET s == db.store
        updated == [db EXCEPT !.store =
                      [k \in DOMAIN s |->
                          IF s[k].tree_id > target_tree_id
                          THEN [s[k] EXCEPT !.tree_id = s[k].tree_id + 1]
                          ELSE s[k]]]
    IN  mptt_track_tree_insertions(updated, target_tree_id + 1, num_trees)

\* create_tree_space that also moves the tree with id target_tree_id.
create_tree_space_inclusive(db, target_tree_id, num_trees) ==
    LET s == db.store
        updated == [db EXCEPT !.store =
                      [k \in DOMAIN s |->
                          IF s[k].tree_id >= target_tree_id
                          THEN [s[k] EXCEPT !.tree_id = s[k].tree_id + num_trees]
                          ELSE s[k]]]
    IN  mptt_track_tree_insertions(updated, target_tree_id + 1, num_trees)

create_tree_space(db, target_tree_id, num_trees) ==
    LET s == db.store
        updated == [db EXCEPT !.store =
                      [k \in DOMAIN s |->
                          IF s[k].tree_id > target_tree_id
                          THEN [s[k] EXCEPT !.tree_id = s[k].tree_id + num_trees]
                          ELSE s[k]]]
    IN  mptt_track_tree_insertions(updated, target_tree_id + 1, num_trees)

\* get_next_tree_id that returns the largest tree id in use.
get_next_tree_id_in_use(db) ==
    LET s == db.store
    IN  IF DOMAIN s = {} THEN 1 ELSE Max({s[k].tree_id : k \in DOMAIN s})

\* TreeManager._get_next_tree_id with root_node_ordering enabled.
get_next_tree_id(db) ==
    LET s == db.store
        max_tree_id == IF DOMAIN s = {} THEN 0 ELSE Max({s[k].tree_id : k \in DOMAIN s})
    IN  max_tree_id + 1

\* calculate_inter_tree_move_values with the target as parent for every position.
calculate_inter_tree_move_values_child_of_target(node, target, position) ==
    LET left == node.lft
        level == node.level
        target_left == target.lft
        target_right == target.rght
        target_level == target.level
        child == position = "last-child" \/ position = "first-child"
        sibling == position = "left" \/ position = "right"
        space_target ==
            IF child
            THEN (IF position = "last-child" THEN target_right - 1 ELSE target_left)
            ELSE (IF position = "left" THEN target_left - 1 ELSE target_right)
        level_change == IF child THEN level - target_level - 1 ELSE level - target_level
        parent == target.pk
    IN  IF ~(child \/ sibling)
        THEN [err |-> "ValueError"]
        ELSE [err |-> "ok",
              space_target |-> space_target,
              level_change |-> level_change,
              left_right_change |-> left - space_target - 1,
              parent |-> parent,
              right_shift |-> IF parent # None
                              THEN 2 * (get_descendant_count(node) + 1) ELSE 0]

\* calculate_inter_tree_move_values with last-child placed after the target's right.
calculate_inter_tree_move_values_after_right(node, target, position) ==
    LET left == node.lft
        level == node.level
        target_left == target.lft
        target_right == target.rght
        target_level == target.level
        child == position = "last-child" \/ position = "first-child"
        sibling == position = "left" \/ position = "right"
        space_target ==
            IF child
            THEN (IF position = "last-child" THEN target_right ELSE target_left)
            ELSE (IF position = "left" THEN target_left - 1 ELSE target_right)
        level_change == IF child THEN level - target_level - 1 ELSE level - target_level
        parent == IF child THEN target.pk ELSE target.parent
    IN  IF ~(child \/ sibling)
        THEN [err |-> "ValueError"]
        ELSE [err |-> "ok",
              space_target |-> space_target,
              level_change |-> level_change,
              left_right_change |-> left - space_target - 1,
              parent |-> parent,
              right_shift |-> IF parent # None
                              THEN 2 * (get_descendant_count(node) + 1) ELSE 0]

\* -------------------------------------------------------------- MoveEngine
calculate_inter_tree_move_values(node, target, position) ==
    LET left == node.lft
        level == node.level
        target_left == target.lft
        target_right == target.rght
        target_level == target.level
        child == position = "last-child" \/ position = "first-child"
        sibling == position = "left" \/ position = "right"
        space_target ==
            IF child
            THEN (IF position = "last-child" THEN target_right - 1 ELSE target_left)
            ELSE (IF position = "left" THEN target_left - 1 ELSE target_right)
        level_change == IF child THEN level - target_level - 1 ELSE level - target_level
        parent == IF child THEN target.pk ELSE target.parent
    IN  IF ~(child \/ sibling)
        THEN [err |-> "ValueError"]
        ELSE [err |-> "ok",
              space_target |-> space_target,
              level_change |-> level_change,
              left_right_change |-> left - space_target - 1,
              parent |-> parent,
              right_shift |-> IF parent # None
                              THEN 2 * (get_descendant_count(node) + 1) ELSE 0]

inter_tree_move_and_close_gap(db, node, level_change, left_right_change, new_tree_id) ==
    LET s == db.store
        left == node.lft
        right == node.rght
        gap_size == right - left + 1
        gap_target_left == left - 1
        current_tree_id == node.tree_id
    IN  [db EXCEPT !.store =
            [k \in DOMAIN s |->
                IF s[k].tree_id = current_tree_id
                THEN [parent |-> s[k].parent,
                      level |-> IF s[k].lft >= left /\ s[k].lft <= right
                                THEN s[k].level - level_change ELSE s[k].level,
                      tree_id |-> IF s[k].lft >= left /\ s[k].lft <= right
                                  THEN new_tree_id ELSE s[k].tree_id,
                      lft |-> IF s[k].lft >= left /\ s[k].lft <= right
                              THEN s[k].lft - left_right_change
                              ELSE IF s[k].lft > gap_target_left
                                   THEN s[k].lft - gap_size ELSE s[k].lft,
                      rght |-> IF s[k].rght >= left /\ s[k].rght <= right
                               THEN s[k].rght - left_right_change
                               ELSE IF s[k].rght > gap_target_left
                                    THEN s[k].rght - gap_size ELSE s[k].rght]
                ELSE s[k]]]

\* make_child_root_node that leaves the level of the node object as it was.
make_child_root_node_stale_level(db, node, new_tree_id) ==
    LET left == node.lft
        right == node.rght
        level == node.level
        tree_id == IF new_tree_id = None THEN get_next_tree_id(db) ELSE new_tree_id
        left_right_change == left - 1
    IN  [err |-> "ok",
         db |-> inter_tree_move_and_close_gap(db, node, level, left_right_change, tree_id),
         node |-> [node EXCEPT !.lft = left - left_right_change,
                               !.rght = right - left_right_change,
                               !.tree_id = tree_id,
                               !.parent = None]]

\* make_child_root_node that shifts the subtree by left instead of left - 1.
make_child_root_node_off_by_one(db, node, new_tree_id) ==
    LET left == node.lft
        right == node.rght
        level == node.level
        tree_id == IF new_tree_id = None THEN get_next_tree_id(db) ELSE new_tree_id
        left_right_change == left
    IN  [err |-> "ok",
         db |-> inter_tree_move_and_close_gap(db, node, level, left_right_change, tree_id),
         node |-> [node EXCEPT !.lft = left - left_right_change,
                               !.rght = right - left_right_change,
                               !.level = 0,
                               !.tree_id = tree_id,
                               !.parent = None]]

make_child_root_node(db, node, new_tree_id) ==
    LET left == node.lft
        right == node.rght
        level == node.level
        tree_id == IF new_tree_id = None THEN get_next_tree_id(db) ELSE new_tree_id
        left_right_change == left - 1
    IN  [err |-> "ok",
         db |-> inter_tree_move_and_close_gap(db, node, level, left_right_change, tree_id),
         node |-> [node EXCEPT !.lft = left - left_right_change,
                               !.rght = right - left_right_change,
                               !.level = 0,
                               !.tree_id = tree_id,
                               !.parent = None]]

\* MPTTModel.get_previous_sibling / get_next_sibling: the primary key of the
\* sibling, or None.  Root nodes are siblings in tree_id order.
get_previous_sibling(s, node) ==
    LET before == IF is_root_node(node)
                  THEN {k \in DOMAIN s : s[k].parent = None /\ s[k].tree_id < node.tree_id}
                  ELSE {k \in DOMAIN s : s[k].parent = node.parent /\ s[k].rght < node.lft}
        key(k) == IF is_root_node(node) THEN s[k].tree_id ELSE s[k].rght
    IN  IF before = {} THEN None
        ELSE CHOOSE k \in before : \A j \in before : key(j) <= key(k)

get_next_sibling(s, node) ==
    LET after == IF is_root_node(node)
                 THEN {k \in DOMAIN s : s[k].parent = None /\ s[k].tree_id > node.tree_id}
                 ELSE {k \in DOMAIN s : s[k].parent = node.parent /\ s[k].lft > node.rght}
        key(k) == IF is_root_node(node) THEN s[k].tree_id ELSE s[k].lft
    IN  IF after = {} THEN None
        ELSE CHOOSE k \in after : \A j \in after : key(k) <= key(j)

\* root_sibling_query that shifts the node's own tree like the others.
root_sibling_query_no_case(db, tree_id, new_tree_id, shift, lower_bound, upper_bound) ==
    LET s == db.store
    IN  [db EXCEPT !.store =
            [k \in DOMAIN s |->
                IF s[k].tree_id >= lower_bound /\ s[k].tree_id <= upper_bound
                THEN [s[k] EXCEPT !.tree_id = s[k].tree_id + shift]
                ELSE s[k]]]

\* The tree id update of _make_sibling_of_root_node for a node that is a root.
root_sibling_query(db, tree_id, new_tree_id, shift, lower_bound, upper_bound) ==
    LET s == db.store
    IN  [db EXCEPT !.store =
            [k \in DOMAIN s |->
                IF s[k].tree_id >= lower_bound /\ s[k].tree_id <= upper_bound
                THEN [s[k] EXCEPT !.tree_id = IF s[k].tree_id = tree_id
                                              THEN new_tree_id
                                              ELSE s[k].tree_id + shift]
                ELSE s[k]]]

make_sibling_of_root_node(db, node, target, position) ==
    LET s == db.store
        tree_id == node.tree_id
        target_tree_id == target.tree_id
        Fail(e) == [err |-> e, db |-> db, node |-> node]
    IN  IF node.pk = target.pk THEN Fail("InvalidMove")
        ELSE IF is_child_node(node)
        THEN IF position \notin {"left", "right"} THEN Fail("ValueError")
             ELSE LET space_target == IF position = "left"
                                      THEN target_tree_id - 1 ELSE target_tree_id
                      new_tree_id == IF position = "left"
                                     THEN target_tree_id ELSE target_tree_id + 1
                      db1 == create_tree_space(db, space_target, 1)
                      node1 == IF tree_id > space_target
                               THEN [node EXCEPT !.tree_id = tree_id + 1] ELSE node
                  IN  make_child_root_node(db1, node1, new_tree_id)
        ELSE IF position = "left"
        THEN IF target_tree_id > tree_id
             THEN LET left_sibling == get_previous_sibling(s, target)
                  IN  IF node.pk = left_sibling
                      THEN [err |-> "ok", db |-> db, node |-> node]
                      ELSE LET new_tree_id == s[left_sibling].tree_id
                           IN  [err |-> "ok",
                                db |-> root_sibling_query(db, tree_id, new_tree_id, -1,
                                                          tree_id, new_tree_id),
                                node |-> [node EXCEPT !.tree_id = new_tree_id]]
             ELSE LET new_tree_id == target_tree_id
                  IN  [err |-> "ok",
                       db |-> root_sibling_query(db, tree_id, new_tree_id, 1,
                                                 new_tree_id, tree_id),
                       node |-> [node EXCEPT !.tree_id = new_tree_id]]
        ELSE IF position = "right"
        THEN IF target_tree_id > tree_id
             THEN LET new_tree_id == target_tree_id
                  IN  [err |-> "ok",
                       db |-> root_sibling_query(db, tree_id, new_tree_id, -1,
                                                 tree_id, target_tree_id),
                       node |-> [node EXCEPT !.tree_id = new_tree_id]]
             ELSE LET right_sibling == get_next_sibling(s, target)
                  IN  IF node.pk = right_sibling
                      THEN [err |-> "ok", db |-> db, node |-> node]
                      ELSE LET new_tree_id == s[right_sibling].tree_id
                           IN  [err |-> "ok",
                                db |-> root_sibling_query(db, tree_id, new_tree_id, 1,
                                                          new_tree_id, tree_id),
                                node |-> [node EXCEPT !.tree_id = new_tree_id]]
        ELSE Fail("ValueError")

\* move_child_to_new_tree that moves the subtree without making space for it.
move_child_to_new_tree_no_space(db, node, target, position) ==
    LET left == node.lft
        right == node.rght
        level == node.level
        new_tree_id == target.tree_id
        v == calculate_inter_tree_move_values(node, target, position)
        tree_width == right - left + 1
    IN  IF v.err # "ok" THEN [err |-> v.err, db |-> db, node |-> node]
        ELSE LET db1 == db
                 db2 == inter_tree_move_and_close_gap(db1, node, v.level_change,
                                                      v.left_right_change, new_tree_id)
             IN  [err |-> "ok",
                  db |-> db2,
                  node |-> [node EXCEPT !.lft = left - v.left_right_change,
                                        !.rght = right - v.left_right_change,
                                        !.level = level - v.level_change,
                                        !.tree_id = new_tree_id,
                                        !.parent = v.parent]]

move_child_to_new_tree(db, node, target, position) ==
    LET left == node.lft
        right == node.rght
        level == node.level
        new_tree_id == target.tree_id
        v == calculate_inter_tree_move_values(node, target, position)
        tree_width == right - left + 1
    IN  IF v.err # "ok" THEN [err |-> v.err, db |-> db, node |-> node]
        ELSE LET db1 == create_space(db, tree_width, v.space_target, new_tree_id)
                 db2 == inter_tree_move_and_close_gap(db1, node, v.level_change,
                                                      v.left_right_change, new_tree_id)
             IN  [err |-> "ok",
                  db |-> db2,
                  node |-> [node EXCEPT !.lft = left - v.left_right_change,
                                        !.rght = right - v.left_right_change,
                                        !.level = level - v.level_change,
                                        !.tree_id = new_tree_id,
                                        !.parent = v.parent]]

\* move_subtree_query with the two WHEN branches of left and right in the other order.
move_subtree_query_swapped(db, left, right, level_change, left_right_change, left_boundary, right_boundary, gap_size, tree_id) ==
    LET s == db.store
    IN  [db EXCEPT !.store =
            [k \in DOMAIN s |->
                IF s[k].tree_id = tree_id
                THEN [parent |-> s[k].parent,
                      tree_id |-> s[k].tree_id,
                      level |-> IF s[k].lft >= left /\ s[k].lft <= right
                                THEN s[k].level - level_change ELSE s[k].level,
                      lft |-> IF s[k].lft >= left_boundary /\ s[k].lft <= right_boundary
                              THEN s[k].lft + gap_size
                              ELSE IF s[k].lft >= left /\ s[k].lft <= right
                                   THEN s[k].lft + left_right_change ELSE s[k].lft,
                      rght |-> IF s[k].rght >= left_boundary /\ s[k].rght <= right_boundary
                               THEN s[k].rght + gap_size
                               ELSE IF s[k].rght >= left /\ s[k].rght <= right
                                    THEN s[k].rght + left_right_change ELSE s[k].rght]
                ELSE s[k]]]

\* The UPDATE statement of _move_child_within_tree.
move_subtree_query(db, left, right, level_change, left_right_change, left_boundary, right_boundary, gap_size, tree_id) ==
    LET s == db.store
    IN  [db EXCEPT !.store =
            [k \in DOMAIN s |->
                IF s[k].tree_id = tree_id
                THEN [parent |-> s[k].parent,
                      tree_id |-> s[k].tree_id,
                      level |-> IF s[k].lft >= left /\ s[k].lft <= right
                                THEN s[k].level - level_change ELSE s[k].level,
                      lft |-> IF s[k].lft >= left /\ s[k].lft <= right
                              THEN s[k].lft + left_right_change
                              ELSE IF s[k].lft >= left_boundary /\ s[k].lft <= right_boundary
                                   THEN s[k].lft + gap_size ELSE s[k].lft,
                      rght |-> IF s[k].rght >= left /\ s[k].rght <= right
                               THEN s[k].rght + left_right_change
                               ELSE IF s[k].rght >= left_boundary /\ s[k].rght <= right_boundary
                                    THEN s[k].rght + gap_size ELSE s[k].rght]
                ELSE s[k]]]

move_child_within_tree(db, node, target, position) ==
    LET left == node.lft
        right == node.rght
        level == node.level
        width == right - left + 1
        tree_id == node.tree_id
        target_left == target.lft
        target_right == target.rght
        target_level == target.level
        child == position = "last-child" \/ position = "first-child"
        sibling == position = "left" \/ position = "right"
        new_left ==
            IF position = "last-child"
            THEN (IF target_right > right THEN target_right - width ELSE target_right)
            ELSE IF position = "first-child"
            THEN (IF target_left > left THEN target_left - width + 1 ELSE target_left + 1)
            ELSE IF position = "left"
            THEN (IF target_left > left THEN target_left - width ELSE target_left)
            ELSE (IF target_right > right THEN target_right - width + 1 ELSE target_right + 1)
        new_right == new_left + width - 1
        level_change == IF child THEN level - target_level - 1 ELSE level - target_level
        parent == IF child THEN target.pk ELSE target.parent
        left_boundary == Min({left, new_left})
        right_boundary == Max({right, new_right})
        left_right_change == new_left - left
        gap_size == IF left_right_change > 0 THEN -width ELSE width
        Fail(e) == [err |-> e, db |-> db, node |-> node]
    IN  IF ~(child \/ sibling) THEN Fail("ValueError")
        ELSE IF node.pk = target.pk THEN Fail("InvalidMove")
        ELSE IF left < target_left /\ target_left < right THEN Fail("InvalidMove")
        ELSE [err |-> "ok",
              db |-> move_subtree_query(db, left, right, level_change, left_right_change,
                                        left_boundary, right_boundary, gap_size, tree_id),
              node |-> [node EXCEPT !.lft = new_left,
                                    !.rght = new_right,
                                    !.level = level - level_change,
                                    !.parent = parent]]

move_child_node(db, node, target, position) ==
    IF node.tree_id = target.tree_id
    THEN move_child_within_tree(db, node, target, position)
    ELSE move_child_to_new_tree(db, node, target, position)

\* move_tree_query that corrects the level of the moved root only.
move_tree_query_root_level(db, level_change, left_right_change, new_tree_id, left, right, tree_id) ==
    LET s == db.store
    IN  [db EXCEPT !.store =
            [k \in DOMAIN s |->
                IF s[k].lft >= left /\ s[k].lft <= right /\ s[k].tree_id = tree_id
                THEN [parent |-> s[k].parent,
                      level |-> IF s[k].lft = left THEN s[k].level - level_change ELSE s[k].level,
                      lft |-> s[k].lft - left_right_change,
                      rght |-> s[k].rght - left_right_change,
                      tree_id |-> new_tree_id]
                ELSE s[k]]]

\* The UPDATE statement of _move_root_node.
move_tree_query(db, level_change, left_right_change, new_tree_id, left, right, tree_id) ==
    LET s == db.store
    IN  [db EXCEPT !.store =
            [k \in DOMAIN s |->
                IF s[k].lft >= left /\ s[k].lft <= right /\ s[k].tree_id = tree_id
                THEN [parent |-> s[k].parent,
                      level |-> s[k].level - level_change,
                      lft |-> s[k].lft - left_right_change,
                      rght |-> s[k].rght - left_right_change,
                      tree_id |-> new_tree_id]
                ELSE s[k]]]

\* move_root_node without the check for a target in the node's own tree.
move_root_node_unchecked(db, node, target, position) ==
    LET left == node.lft
        right == node.rght
        level == node.level
        tree_id == node.tree_id
        new_tree_id == target.tree_id
        width == right - left + 1
        v == calculate_inter_tree_move_values(node, target, position)
        Fail(e) == [err |-> e, db |-> db, node |-> node]
    IN  IF node.pk = target.pk THEN Fail("InvalidMove")
        ELSE IF v.err # "ok" THEN Fail(v.err)
        ELSE LET db1 == create_space(db, width, v.space_target, new_tree_id)
                 db2 == move_tree_query(db1, v.level_change, v.left_right_change,
                                        new_tree_id, left, right, tree_id)
             IN  [err |-> "ok",
                  db |-> db2,
                  node |-> [node EXCEPT !.lft = left - v.left_right_change,
                                        !.rght = right - v.left_right_change,
                                        !.level = level - v.level_change,
                                        !.tree_id = new_tree_id,
                                        !.parent = v.parent]]

\* move_root_node that moves the tree without making space for it.
move_root_node_no_space(db, node, target, position) ==
    LET left == node.lft
        right == node.rght
        level == node.level
        tree_id == node.tree_id
        new_tree_id == target.tree_id
        width == right - left + 1
        v == calculate_inter_tree_move_values(node, target, position)
        Fail(e) == [err |-> e, db |-> db, node |-> node]
    IN  IF node.pk = target.pk THEN Fail("InvalidMove")
        ELSE IF tree_id = new_tree_id THEN Fail("InvalidMove")
        ELSE IF v.err # "ok" THEN Fail(v.err)
        ELSE LET db2 == move_tree_query(db, v.level_change, v.left_right_change,
                                        new_tree_id, left, right, tree_id)
             IN  [err |-> "ok",
                  db |-> db2,
                  node |-> [node EXCEPT !.lft = left - v.left_right_change,
                                        !.rght = right - v.left_right_change,
                                        !.level = level - v.level_change,
                                        !.tree_id = new_tree_id,
                                        !.parent = v.parent]]

move_root_node(db, node, target, position) ==
    LET left == node.lft
        right == node.rght
        level == node.level
        tree_id == node.tree_id
        new_tree_id == target.tree_id
        width == right - left + 1
        v == calculate_inter_tree_move_values(node, target, position)
        Fail(e) == [err |-> e, db |-> db, node |-> node]
    IN  IF node.pk = target.pk THEN Fail("InvalidMove")
        ELSE IF tree_id = new_tree_id THEN Fail("InvalidMove")
        ELSE IF v.err # "ok" THEN Fail(v.err)
        ELSE LET db1 == create_space(db, width, v.space_target, new_tree_id)
                 db2 == move_tree_query(db1, v.level_change, v.left_right_change,
                                        new_tree_id, left, right, tree_id)
             IN  [err |-> "ok",
                  db |-> db2,
                  node |-> [node EXCEPT !.lft = left - v.left_right_change,
                                        !.rght = right - v.left_right_change,
                                        !.level = level - v.level_change,
                                        !.tree_id = new_tree_id,
                                        !.parent = v.parent]]

\* _post_insert_update_cached_parent_right that stops at the first instance.
post_insert_update_cached_parent_right_first_only(objects, instance, right_shift, seen) ==
    [err |-> "ok",
     objects |-> [objects EXCEPT ![instance].rght = objects[instance].rght + right_shift]]

\* TreeManager._post_insert_update_cached_parent_right on the model objects
\* held in memory: objects[k] is the object with key k, its right value and
\* the key of its cached parent (None: no cached parent).  The objects changed
\* before InvalidMove is raised stay changed.
RECURSIVE post_insert_update_cached_parent_right(_, _, _, _)
post_insert_update_cached_parent_right(objects, instance, right_shift, seen) ==
    LET objects1 == [objects EXCEPT ![instance].rght = objects[instance].rght + right_shift]
        parent == objects1[instance].parent
        seen1 == seen \cup {instance}
    IN  IF parent = None
        THEN [err |-> "ok", objects |-> objects1]
        ELSE IF parent \in seen1
        THEN [err |-> "InvalidMove", objects |-> objects1]
        ELSE post_insert_update_cached_parent_right(objects1, parent, right_shift, seen1)

\* target._mptt_refresh(): the tree values of the instance are read again.
mptt_refresh(db, target) == Load(db.store, target.pk)

insert_node(db, node, target, position, save, allow_existing_pk, refresh_target) ==
    LET Done(db1, node1) ==
            [err |-> "ok", db |-> IF save THEN Save(db1, node1) ELSE db1, node |-> node1]
        Root(tree_id) == [node EXCEPT !.lft = 1, !.rght = 2, !.level = 0,
                                      !.tree_id = tree_id, !.parent = None]
    IN  IF node.pk # None /\ ~allow_existing_pk /\ node.pk \in DOMAIN db.store
        THEN [err |-> "ValueError", db |-> db, node |-> node]
        ELSE IF target.pk = None
        THEN Done(db, Root(get_next_tree_id(db)))
        ELSE IF is_root_node(target) /\ position \in {"left", "right"}
        THEN LET target1 == IF refresh_target THEN mptt_refresh(db, target) ELSE target
                 target_tree_id == target1.tree_id
                 tree_id == IF position = "left" THEN target_tree_id ELSE target_tree_id + 1
                 space_target == IF position = "left"
                                 THEN target_tree_id - 1 ELSE target_tree_id
             IN  Done(create_tree_space(db, space_target, 1), Root(tree_id))
        ELSE LET node0 == [node EXCEPT !.lft = 0, !.level = 0]
                 target1 == IF refresh_target THEN mptt_refresh(db, target) ELSE target
                 v == calculate_inter_tree_move_values(node0, target1, position)
             IN  IF v.err # "ok" THEN [err |-> v.err, db |-> db, node |-> node0]
                 ELSE LET tree_id == target1.tree_id
                          db1 == create_space(db, 2, v.space_target, tree_id)
                      IN  Done(db1, [node0 EXCEPT !.lft = -v.left_right_change,
                                                  !.rght = -v.left_right_change + 1,
                                                  !.level = -v.level_change,
                                                  !.tree_id = tree_id,
                                                  !.parent = v.parent])

\* TreeManager.insert_node on a model with root_node_ordering disabled:
\* _get_next_tree_id returns the field's default, a generated key, and no
\* tree space is made.  default is the key the call draws.
insert_node_unordered(db, node, target, position, save, allow_existing_pk, refresh_target, default) ==
    LET Done(db1, node1) ==
            [err |-> "ok", db |-> IF save THEN Save(db1, node1) ELSE db1, node |-> node1]
        Root(tree_id) == [node EXCEPT !.lft = 1, !.rght = 2, !.level = 0,
                                      !.tree_id = tree_id, !.parent = None]
    IN  IF node.pk # None /\ ~allow_existing_pk /\ node.pk \in DOMAIN db.store
        THEN [err |-> "ValueError", db |-> db, node |-> node]
        ELSE IF target.pk = None
        THEN Done(db, Root(default))
        ELSE IF is_root_node(target) /\ position \in {"left", "right"}
        THEN LET target1 == IF refresh_target THEN mptt_refresh(db, target) ELSE target
                 target_tree_id == target1.tree_id
                 tree_id == IF position = "left" THEN target_tree_id ELSE default
             IN  Done(db, Root(tree_id))
        ELSE insert_node(db, node, target, position, save, allow_existing_pk,
                         refresh_target)

\* _move_node that detaches the node for a target of None even when it is a root.
move_node_inner_detach_root(db, node, target, position, save, refresh_target) ==
    IF db.is_tracking
    THEN insert_node(db, node, target, position, save, TRUE, refresh_target)
    ELSE IF target.pk = None
    THEN make_child_root_node(db, node, None)
    ELSE IF is_root_node(target) /\ position \in {"left", "right"}
    THEN make_sibling_of_root_node(db, node, target, position)
    ELSE IF is_root_node(node)
    THEN move_root_node(db, node, target, position)
    ELSE move_child_node(db, node, target, position)

\* TreeManager._move_node
move_node_inner(db, node, target, position, save, refresh_target) ==
    IF db.is_tracking
    THEN insert_node(db, node, target, position, save, TRUE, refresh_target)
    ELSE IF target.pk = None
    THEN (IF is_child_node(node)
          THEN make_child_root_node(db, node, None)
          ELSE [err |-> "ok", db |-> db, node |-> node])
    ELSE IF is_root_node(target) /\ position \in {"left", "right"}
    THEN make_sibling_of_root_node(db, node, target, position)
    ELSE IF is_root_node(node)
    THEN move_root_node(db, node, target, position)
    ELSE move_child_node(db, node, target, position)

move_node(db, node, target, position) ==
    LET r == move_node_inner(db, node, target, position, TRUE, TRUE)
    IN  IF r.err # "ok" THEN r
        ELSE [err |-> "ok", db |-> Save(r.db, r.node), node |-> r.node]


\* move_node_statements without the save that ends move_node.
move_node_statements_unsaved(db, node, target, position) ==
    LET r == move_node_inner(db, node, target, position, TRUE, TRUE)
    IN  <<r.db>>

\* The table after each statement move_node(node, target, position) sends to
\* the store, outside a scope, for a call that raises nothing: the statements
\* of the case _move_node selects, one UPDATE each, then the UPDATE of
\* node.save().
move_node_statements(db, node, target, position) ==
    LET r == move_node_inner(db, node, target, position, TRUE, TRUE)
        saved == Save(r.db, r.node)
        v == calculate_inter_tree_move_values(node, target, position)
        width == node.rght - node.lft + 1
        left_sibling == get_previous_sibling(db.store, target)
        right_sibling == get_next_sibling(db.store, target)
    IN  IF target.pk = None
        THEN (IF is_child_node(node) THEN <<r.db, saved>> ELSE <<saved>>)
        ELSE IF is_root_node(target) /\ position \in {"left", "right"}
        THEN IF is_child_node(node)
             THEN <<create_tree_space(db, IF position = "left" THEN target.tree_id - 1
                                          ELSE target.tree_id, 1),
                    r.db, saved>>
             ELSE IF \/ position = "left" /\ target.tree_id > node.tree_id
                        /\ node.pk = left_sibling
                     \/ position = "right" /\ ~(target.tree_id > node.tree_id)
                        /\ node.pk = right_sibling
             THEN <<saved>>
             ELSE <<r.db, saved>>
        ELSE IF is_root_node(node) \/ node.tree_id # target.tree_id
        THEN <<create_space(db, width, v.space_target, target.tree_id), r.db, saved>>
        ELSE <<r.db, saved>>

\* ----------------------------------------------------------- RebuildEngine
\* The keys of S in the manager's default order (tree_id, lft), rows that tie
\* in primary key order.
RECURSIVE TreeOrder(_, _)
TreeOrder(s, S) ==
    IF S = {} THEN <<>>
    ELSE LET first == CHOOSE k \in S : \A j \in S \ {k} :
                          \/ s[k].tree_id < s[j].tree_id
                          \/ s[k].tree_id = s[j].tree_id /\ s[k].lft < s[j].lft
                          \/ s[k].tree_id = s[j].tree_id /\ s[k].lft = s[j].lft /\ k < j
         IN  <<first>> \o TreeOrder(s, S \ {first})

Matches(s, k, filter_tree_id) == filter_tree_id = None \/ s[k].tree_id = filter_tree_id

\* get_parents with the roots in descending order.
get_parents_descending(s, filter_tree_id) ==
    LET q == TreeOrder(s, {k \in DOMAIN s : s[k].parent = None /\ Matches(s, k, filter_tree_id)})
    IN  [i \in 1..Len(q) |-> q[Len(q) + 1 - i]]

get_parents(s, filter_tree_id) ==
    TreeOrder(s, {k \in DOMAIN s : s[k].parent = None /\ Matches(s, k, filter_tree_id)})

get_children(s, filter_tree_id) ==
    [p \in DOMAIN s |->
        TreeOrder(s, {k \in DOMAIN s : s[k].parent = p /\ Matches(s, k, filter_tree_id)})]

\* _rebuild_helper: nodes_to_update is a function from primary keys to the new
\* tree values; the result carries it with the value after the node's right.
RECURSIVE rebuild_helper(_, _, _, _, _, _)
RECURSIVE rebuild_children(_, _, _, _, _, _, _)
rebuild_helper(node, left, tree_id, children, nodes_to_update, level) ==
    LET r == rebuild_children(children[node], 1, left + 1, tree_id, children,
                              nodes_to_update, level + 1)
        right == r.next
        values == [lft |-> left, rght |-> right, level |-> level, tree_id |-> tree_id]
    IN  [nodes_to_update |->
            [k \in (DOMAIN r.nodes_to_update) \cup {node} |->
                IF k = node THEN values ELSE r.nodes_to_update[k]],
         next |-> right + 1]

\* The loop over children[node.pk] of _rebuild_helper, from the i-th child on.
rebuild_children(kids, i, right, tree_id, children, nodes_to_update, level) ==
    IF i > Len(kids) THEN [nodes_to_update |-> nodes_to_update, next |-> right]
    ELSE LET r == rebuild_helper(kids[i], right, tree_id, children, nodes_to_update, level)
         IN  rebuild_children(kids, i + 1, r.next, tree_id, children,
                              r.nodes_to_update, level)

\* The loop over enumerate(parents) of rebuild, from the index-th root on;
\* tree_ids[index + 1] is the tree id the loop gives the index-th root.
RECURSIVE rebuild_parents(_, _, _, _, _)
rebuild_parents(parents, index, tree_ids, children, nodes_to_update) ==
    IF index >= Len(parents) THEN nodes_to_update
    ELSE rebuild_parents(parents, index + 1, tree_ids, children,
            rebuild_helper(parents[index + 1], 1, tree_ids[index + 1], children,
                           nodes_to_update, 0).nodes_to_update)

\* bulk_update of the rebuild fields.
bulk_update(db, nodes_to_update) ==
    LET s == db.store
    IN  [db EXCEPT !.store =
            [k \in DOMAIN s |->
                IF k \in DOMAIN nodes_to_update
                THEN [parent |-> s[k].parent,
                      lft |-> nodes_to_update[k].lft,
                      rght |-> nodes_to_update[k].rght,
                      level |-> nodes_to_update[k].level,
                      tree_id |-> nodes_to_update[k].tree_id]
                ELSE s[k]]]

NoUpdates == [k \in {} |-> None]

\* rebuild that numbers the roots from 1 whatever the tree_id filter is.
rebuild_from_one(db, filter_tree_id, root_node_ordering, uuids) ==
    LET parents == get_parents(db.store, filter_tree_id)
        children == get_children(db.store, filter_tree_id)
        tree_ids == [i \in 1..Len(parents) |->
                        IF root_node_ordering THEN 1 + (i - 1) ELSE uuids[i]]
    IN  bulk_update(db, rebuild_parents(parents, 0, tree_ids, children, NoUpdates))

\* rebuild that gives every root the base tree id (the index is not added).
rebuild_same_tree_id(db, filter_tree_id, root_node_ordering, uuids) ==
    LET parents == get_parents(db.store, filter_tree_id)
        children == get_children(db.store, filter_tree_id)
        tree_id == IF filter_tree_id = None THEN 1 ELSE filter_tree_id
        tree_ids == [i \in 1..Len(parents) |->
                        IF root_node_ordering THEN tree_id ELSE uuids[i]]
    IN  bulk_update(db, rebuild_parents(parents, 0, tree_ids, children, NoUpdates))

\* rebuild(**filters), the only filter being tree_id (None: no filter).
\* uuids[i] is the value the i-th evaluation of uuid.uuid4() returns.
rebuild(db, filter_tree_id, root_node_ordering, uuids) ==
    LET parents == get_parents(db.store, filter_tree_id)
        children == get_children(db.store, filter_tree_id)
        tree_id == IF filter_tree_id = None THEN 1 ELSE filter_tree_id
        tree_ids == [i \in 1..Len(parents) |->
                        IF root_node_ordering THEN tree_id + (i - 1) ELSE uuids[i]]
    IN  bulk_update(db, rebuild_parents(parents, 0, tree_ids, children, NoUpdates))

\* partial_rebuild that rebuilds the whole table when the tree has one root.
partial_rebuild_whole_table(db, tree_id) ==
    LET s == db.store
        count == Cardinality({k \in DOMAIN s : s[k].parent = None /\ s[k].tree_id = tree_id})
    IN  IF count = 0 THEN [err |-> "ok", db |-> db]
        ELSE IF count = 1 THEN [err |-> "ok", db |-> rebuild(db, None, TRUE, <<>>)]
        ELSE [err |-> "RuntimeError", db |-> db]

\* partial_rebuild that rebuilds whenever some root has the tree id.
partial_rebuild_any_root(db, tree_id) ==
    LET s == db.store
        count == Cardinality({k \in DOMAIN s : s[k].parent = None /\ s[k].tree_id = tree_id})
    IN  IF count = 0 THEN [err |-> "ok", db |-> db]
        ELSE [err |-> "ok", db |-> rebuild(db, tree_id, TRUE, <<>>)]

\* partial_rebuild(tree_id) of a model with root_node_ordering enabled.
partial_rebuild(db, tree_id) ==
    LET s == db.store
        count == Cardinality({k \in DOMAIN s : s[k].parent = None /\ s[k].tree_id = tree_id})
    IN  IF count = 0 THEN [err |-> "ok", db |-> db]
        ELSE IF count = 1 THEN [err |-> "ok", db |-> rebuild(db, tree_id, TRUE, <<>>)]
        ELSE [err |-> "RuntimeError", db |-> db]

\* The loop over the recorded tree ids that leaves out the last of them.
RECURSIVE partial_rebuilds_all_but_last(_, _, _)
partial_rebuilds_all_but_last(db, results, i) ==
    IF i >= Len(results) THEN [err |-> "ok", db |-> db, calls |-> <<>>]
    ELSE LET r == partial_rebuild(db, results[i])
             call == [tree_id |-> results[i], is_tracking |-> db.is_tracking]
         IN  IF r.err # "ok" THEN [err |-> r.err, db |-> r.db, calls |-> <<call>>]
             ELSE LET rest == partial_rebuilds_all_but_last(r.db, results, i + 1)
                  IN  [rest EXCEPT !.calls = <<call>> \o @]

\* The loop over the recorded tree ids at the end of delay_mptt_updates, in
\* the order results gives them, from the i-th one on.  calls lists the
\* partial_rebuild calls made, each with the tracking flag it was made under.
RECURSIVE partial_rebuilds(_, _, _)
partial_rebuilds(db, results, i) ==
    IF i > Len(results) THEN [err |-> "ok", db |-> db, calls |-> <<>>]
    ELSE LET r == partial_rebuild(db, results[i])
             call == [tree_id |-> results[i], is_tracking |-> db.is_tracking]
         IN  IF r.err # "ok" THEN [err |-> r.err, db |-> r.db, calls |-> <<call>>]
             ELSE LET rest == partial_rebuilds(r.db, results, i + 1)
                  IN  [rest EXCEPT !.calls = <<call>> \o @]

\* What a block can raise that is no subclass of Exception (KeyboardInterrupt,
\* SystemExit, GeneratorExit): `except Exception` lets it pass.
Interrupts == {"KeyboardInterrupt"}

\* MPTTModel._mptt_stop_tracking: tracking ends and the record is given up.
mptt_stop_tracking(db) == [db EXCEPT !.is_tracking = FALSE, !.tracked = {}]

\* The end of a scope that rebuilds the recorded trees although the block raised.
delay_mptt_updates_rebuild_on_error(db, raised, results) ==
    LET r == partial_rebuilds(mptt_stop_tracking(db), results, 1)
    IN  IF raised # "ok" THEN [r EXCEPT !.err = raised] ELSE r

\* The end of the outermost delay_mptt_updates scope.  raised is the error
\* the block raised ("ok": none); results lists the recorded tree ids in the
\* order the loop meets them.
delay_mptt_updates(db, raised, results) ==
    IF raised \in Interrupts
    THEN [err |-> raised, db |-> db, calls |-> <<>>]
    ELSE IF raised # "ok"
    THEN [err |-> raised, db |-> mptt_stop_tracking(db), calls |-> <<>>]
    ELSE partial_rebuilds(mptt_stop_tracking(db), results, 1)

\* The error cases of disable_mptt_updates without the proxy case.
cant_disable_updates_proxy_allowed(model) ==
    model.abstract \/ ~model.owner

\* The error cases of disable_mptt_updates: the model is abstract, is a proxy,
\* or is not the model that holds the tree fields (tree_model is not model).
cant_disable_updates(model) ==
    model.abstract \/ model.proxy \/ ~model.owner

\* disable_mptt_updates up to its yield: the updates-enabled flag the block
\* runs with, or the error raised instead of running it.
disable_mptt_updates_enter(model, enabled) ==
    IF cant_disable_updates(model)
    THEN [err |-> "CantDisableUpdates", enabled |-> enabled]
    ELSE [err |-> "ok", enabled |-> FALSE]

\* delay_mptt_updates up to its yield: inside disable_mptt_updates, tracking
\* starts with an empty record unless the model is tracking already.
delay_mptt_updates_enter(model, enabled, tracking, ids) ==
    LET d == disable_mptt_updates_enter(model, enabled)
    IN  IF d.err # "ok"
        THEN [err |-> d.err, enabled |-> d.enabled, tracking |-> tracking, tracked |-> ids]
        ELSE [err |-> "ok", enabled |-> d.enabled, tracking |-> TRUE,
              tracked |-> IF tracking THEN ids ELSE {}]

\* disable_mptt_updates after its yield: entered is the flag the scope found
\* when it was entered, enabled the flag when the block ends.  A scope that
\* found the updates disabled does nothing; the other enables them, whatever
\* the block raised.
disable_mptt_updates_exit(entered, enabled) ==
    IF ~entered THEN enabled ELSE TRUE

\* delay_mptt_updates_exit that stops tracking at the end of every scope.
delay_mptt_updates_exit_always_stops(db, entered_tracking, raised, results) ==
    delay_mptt_updates(db, raised, results)

\* delay_mptt_updates after its yield: entered_tracking tells whether the scope
\* found the model tracking when it was entered.  Such a scope does nothing
\* and lets the error of its block pass; the other is the outermost one.
delay_mptt_updates_exit(db, entered_tracking, raised, results) ==
    IF entered_tracking
    THEN [err |-> raised, db |-> db, calls |-> <<>>]
    ELSE delay_mptt_updates(db, raised, results)

\* --------------------------------------------------------- BulkTreeBuilder
RECURSIVE treeify(_, _, _, _)
RECURSIVE treeify_children(_, _, _, _, _)
\* treeify of build_tree_nodes: the node takes the cursor as its left, each
\* child starts one after the cursor its elder sibling returned, the right is
\* one after the last cursor.  The result is the cursor returned and the
\* nodes appended to the stack, the node before its children.
treeify(data, cursor, level, tree_id) ==
    LET node == [pk |-> data.pk, parent |-> data.parent, lft |-> cursor,
                 rght |-> None, level |-> level, tree_id |-> tree_id]
        kids == treeify_children(data.children, 1, cursor, level, tree_id)
        right == kids.cursor + 1
    IN  [cursor |-> right, stack |-> <<[node EXCEPT !.rght = right]>> \o kids.stack]

\* for child in children: cursor = treeify(child, cursor + 1, level + 1)
treeify_children(children, i, cursor, level, tree_id) ==
    IF i > Len(children) THEN [cursor |-> cursor, stack |-> <<>>]
    ELSE LET r == treeify(children[i], cursor + 1, level + 1, tree_id)
             rest == treeify_children(children, i + 1, r.cursor, level, tree_id)
         IN  [cursor |-> rest.cursor, stack |-> r.stack \o rest.stack]

\* build_tree_nodes that opens room for one node whatever the description holds.
build_tree_nodes_single_space(db, data, target, position) ==
    LET anchored == target.pk # None
        tree_id == IF anchored THEN target.tree_id ELSE get_next_tree_id(db)
        level == IF ~anchored THEN 0
                 ELSE IF position \in {"left", "right"} THEN target.level
                 ELSE target.level + 1
        cursor == IF ~anchored THEN 1
                  ELSE IF position = "left" THEN target.lft
                  ELSE IF position = "right" THEN target.rght + 1
                  ELSE IF position = "first-child" THEN target.lft + 1
                  ELSE target.rght
        stack == treeify(data, cursor, level, tree_id).stack
    IN  [err |-> "ok",
         db |-> IF anchored THEN create_space(db, 2, cursor - 1, tree_id) ELSE db,
         nodes |-> stack]

\* build_tree_nodes that starts a new tree one level down.
build_tree_nodes_level_one(db, data, target, position) ==
    LET anchored == target.pk # None
        tree_id == IF anchored THEN target.tree_id ELSE get_next_tree_id(db)
        level == IF ~anchored THEN 1
                 ELSE IF position \in {"left", "right"} THEN target.level
                 ELSE target.level + 1
        cursor == IF ~anchored THEN 1
                  ELSE IF position = "left" THEN target.lft
                  ELSE IF position = "right" THEN target.rght + 1
                  ELSE IF position = "first-child" THEN target.lft + 1
                  ELSE target.rght
        stack == treeify(data, cursor, level, tree_id).stack
    IN  [err |-> "ok",
         db |-> IF anchored THEN create_space(db, 2 * Len(stack), cursor - 1, tree_id)
                ELSE db,
         nodes |-> stack]

\* TreeManager.build_tree_nodes(data, target, position): nothing is saved, the
\* nodes are returned in the order treeify appended them.  A position that is
\* neither left nor right takes the child branch, and there every position
\* but first-child starts at the target's right.
build_tree_nodes(db, data, target, position) ==
    LET anchored == target.pk # None
        tree_id == IF anchored THEN target.tree_id ELSE get_next_tree_id(db)
        level == IF ~anchored THEN 0
                 ELSE IF position \in {"left", "right"} THEN target.level
                 ELSE target.level + 1
        cursor == IF ~anchored THEN 1
                  ELSE IF position = "left" THEN target.lft
                  ELSE IF position = "right" THEN target.rght + 1
                  ELSE IF position = "first-child" THEN target.lft + 1
                  ELSE target.rght
        stack == treeify(data, cursor, level, tree_id).stack
    IN  [err |-> "ok",
         db |-> IF anchored THEN create_space(db, 2 * Len(stack), cursor - 1, tree_id)
                ELSE db,
         nodes |-> stack]

\* Model.objects.bulk_create(records): every record is written as it is.
bulk_create(db, records) ==
    LET s == db.store
        keys == {records[i].pk : i \in 1..Len(records)}
        Record(k) == records[CHOOSE i \in 1..Len(records) : records[i].pk = k]
    IN  [db EXCEPT !.store =
            [k \in (DOMAIN s) \cup keys |-> IF k \in keys THEN RowOf(Record(k)) ELSE s[k]]]

\* -------------------------------------------------------- tree vocabulary
NodesOfTree(s, t) == {k \in DOMAIN s : s[k].tree_id = t}

RECURSIVE IsAncestorBounded(_, _, _, _)
\* a is reached from b by following at most n parent pointers (n >= 1 steps).
IsAncestorBounded(s, a, b, n) ==
    IF n = 0 \/ s[b].parent = None \/ s[b].parent \notin DOMAIN s THEN FALSE
    ELSE s[b].parent = a \/ IsAncestorBounded(s, a, s[b].parent, n - 1)

\* a is a descendant of b by following parent pointers.
IsDescendant(s, a, b) == IsAncestorBounded(s, b, a, Cardinality(DOMAIN s))

RECURSIVE Depth(_, _, _)
Depth(s, k, n) ==
    IF n = 0 \/ s[k].parent = None \/ s[k].parent \notin DOMAIN s THEN 0
    ELSE 1 + Depth(s, s[k].parent, n - 1)

Contains(s, b, a) ==
    s[a].tree_id = s[b].tree_id /\ s[b].lft < s[a].lft /\ s[a].rght < s[b].rght

Roots(s) == {k \in DOMAIN s : s[k].parent = None}

\* ---------------------------------------------------------------- actions
EmptyStore == [k \in {} |-> NewNode]

Targets(s) == {Load(s, k) : k \in DOMAIN s} \cup {NewNode}

TreeIdsOf(s) == {s[k].tree_id : k \in DOMAIN s}

WithinBounds(s) ==
    /\ Cardinality(DOMAIN s) <= MaxNodes
    /\ \A t \in TreeIdsOf(s) : t <= MaxTreeId

\* No call is being observed: the caller holds no record of a finished call.
Idle == [op |-> "idle", node |-> None, target |-> None,
         position |-> "last-child", err |-> "ok"]

Init ==
    /\ store = EmptyStore
    /\ mptt_updates_enabled = TRUE
    /\ mptt_is_tracking = FALSE
    /\ tracked = {}
    /\ scope_ops = 0
    /\ prev = EmptyStore
    /\ last = Idle

\* One call of a manager operation: the table and the recorded tree ids take
\* the values the call leaves, an error leaves what was written before it.
\* prev and last keep the table before the call and the call's arguments and
\* outcome until the caller lets go of them (Return).  scope_ops counts the
\* calls made inside a delayed scope; a run makes at most MaxScopeOps of them
\* and makes none after the scope that held them.
Call(op, r, pk, target, position) ==
    /\ last = Idle
    /\ IF mptt_is_tracking THEN scope_ops < MaxScopeOps ELSE scope_ops = 0
    /\ scope_ops' = IF mptt_is_tracking THEN scope_ops + 1 ELSE scope_ops
    /\ WithinBounds(r.db.store)
    /\ store' = r.db.store
    /\ tracked' = r.db.tracked
    /\ prev' = store
    /\ last' = [op |-> op, node |-> pk, target |-> target.pk,
                position |-> position, err |-> r.err]
    /\ UNCHANGED <<mptt_updates_enabled, mptt_is_tracking>>

\* TreeManager.insert_node(node, target, position, save=True) on a new node.
InsertNode ==
    \E target \in Targets(store), position \in Positions :
        /\ Cardinality(DOMAIN store) < MaxNodes
        /\ (target.pk = None => position = "last-child")
        /\ Call("insert_node",
                insert_node(Db(store, mptt_is_tracking, tracked), NewNode, target,
                            position, TRUE, FALSE, TRUE),
                Cardinality(DOMAIN store) + 1, target, position)

\* TreeManager.move_node(node, target, position).
MoveNodeCall(pk, target, position) ==
    /\ (target.pk = None => position = "last-child")
    /\ Call("move_node",
            move_node(Db(store, mptt_is_tracking, tracked), Load(store, pk), target,
                      position),
            pk, target, position)

MoveNode ==
    \E pk \in DOMAIN store, target \in Targets(store), position \in Positions :
        MoveNodeCall(pk, target, position)

\* The caller drops the record of the finished call.
Return ==
    /\ last # Idle
    /\ prev' = EmptyStore
    /\ last' = Idle
    /\ UNCHANGED <<store, mptt_updates_enabled, mptt_is_tracking, tracked, scope_ops>>

Next == InsertNode \/ MoveNode \/ Return

Spec == Init /\ [][Next]_vars

\* The orders in which a set of recorded tree ids can be iterated.
Orders(S) ==
    {q \in [1..Cardinality(S) -> S] : \A i, j \in 1..Cardinality(S) : i # j => q[i] # q[j]}

\* with delay_mptt_updates(): entry of the outermost scope.  disable_mptt_updates
\* turns the updates off and _mptt_start_tracking starts an empty record.
DelayEnter ==
    /\ last = Idle
    /\ mptt_updates_enabled
    /\ ~mptt_is_tracking
    /\ scope_ops = 0
    /\ mptt_updates_enabled' = FALSE
    /\ mptt_is_tracking' = TRUE
    /\ tracked' = {}
    /\ UNCHANGED <<store, scope_ops, prev, last>>

\* The end of the outermost delay_mptt_updates scope; disable_mptt_updates
\* enables the updates again whatever happened.
ScopeEnd(op, raised) ==
    /\ last = Idle
    /\ mptt_is_tracking
    /\ ~mptt_updates_enabled
    /\ \E results \in Orders(tracked) :
          LET r == delay_mptt_updates(Db(store, mptt_is_tracking, tracked), raised, results)
          IN  /\ store' = r.db.store
              /\ mptt_is_tracking' = r.db.is_tracking
              /\ tracked' = r.db.tracked
              /\ last' = [op |-> op, node |-> None, target |-> None,
                          position |-> "last-child", err |-> r.err,
                          raised |-> raised, recorded |-> tracked, calls |-> r.calls]
    /\ prev' = store
    /\ mptt_updates_enabled' = TRUE
    /\ UNCHANGED scope_ops

\* The block of the outermost delay_mptt_updates scope ends without an error.
DelayExit == ScopeEnd("delay_exit", "ok")

\* The errors the block of a scope raises.
BlockErrors == {"ValueError", "InvalidMove"}

\* The block of the outermost delay_mptt_updates scope raises an error.
DelayAbort == \E raised \in BlockErrors : ScopeEnd("delay_abort", raised)

\* move_node called inside the delayed scope, with a target that is neither
\* the node nor below it.
ScopedMoveNode ==
    /\ mptt_is_tracking
    /\ \E pk \in DOMAIN store, target \in Targets(store), position \in Positions :
          /\ target.pk # pk
          /\ target.pk # None => ~IsDescendant(store, target.pk, pk)
          /\ MoveNodeCall(pk, target, position)

\* The block of the outermost delay_mptt_updates scope is left by an exception
\* that is no subclass of Exception.
DelayInterrupt == \E raised \in Interrupts : ScopeEnd("delay_interrupt", raised)

NextDelay ==
    InsertNode \/ ScopedMoveNode \/ Return \/ DelayEnter \/ DelayExit \/ DelayAbort

\* A forest built by insertions, then one delayed scope holding up to
\* MaxScopeOps insert_node and move_node calls.
DelaySpec == Init /\ [][NextDelay]_vars

\* move_node called inside the delayed scope with the node itself, or a node
\* below it, as the target.
ScopedInvalidMoveNode ==
    /\ mptt_is_tracking
    /\ \E pk \in DOMAIN store, target \in Targets(store) \ {NewNode}, position \in Positions :
          /\ target.pk = pk \/ IsDescendant(store, target.pk, pk)
          /\ MoveNodeCall(pk, target, position)

NextDelayInvalid == NextDelay \/ ScopedInvalidMoveNode

\* DelaySpec with move_node calls inside the scope that immediate mode rejects.
DelayInvalidSpec == Init /\ [][NextDelayInvalid]_vars

\* with disable_mptt_updates(): entry of the outermost scope.
DisableEnter ==
    /\ last = Idle
    /\ mptt_updates_enabled
    /\ mptt_updates_enabled' = FALSE
    /\ UNCHANGED <<store, mptt_is_tracking, tracked, scope_ops, prev, last>>

\* The outermost disable_mptt_updates scope ends.
DisableExit ==
    /\ last = Idle
    /\ ~mptt_updates_enabled
    /\ ~mptt_is_tracking
    /\ mptt_updates_enabled' = TRUE
    /\ UNCHANGED <<store, mptt_is_tracking, tracked, scope_ops, prev, last>>

NextInterrupt == NextDelay \/ DelayInterrupt

\* DelaySpec with blocks that are left by an interrupt.
InterruptSpec == Init /\ [][NextInterrupt]_vars

\* The points after which a gap is opened or closed, and the gap sizes.
SpacePoints == 0..(2 * MaxNodes)

GapSizes == {2, 4}

\* One call of a space operation: op names it, r is the database it leaves.
SpaceCall(op, r, size, target, tree_id) ==
    /\ last = Idle
    /\ store' = r.store
    /\ tracked' = r.tracked
    /\ prev' = store
    /\ last' = [op |-> op, size |-> size, target |-> target, tree_id |-> tree_id,
                recorded |-> tracked, err |-> "ok"]
    /\ UNCHANGED <<mptt_updates_enabled, mptt_is_tracking, scope_ops>>

\* TreeManager._create_space(size, target, tree_id).
CreateSpace ==
    \E size \in GapSizes, target \in SpacePoints, tree_id \in 1..MaxTreeId :
        SpaceCall("create_space",
                  create_space(Db(store, mptt_is_tracking, tracked), size, target, tree_id),
                  size, target, tree_id)

\* TreeManager._close_gap(size, target, tree_id).
CloseGap ==
    \E size \in GapSizes, target \in SpacePoints, tree_id \in 1..MaxTreeId :
        SpaceCall("close_gap",
                  close_gap(Db(store, mptt_is_tracking, tracked), size, target, tree_id),
                  size, target, tree_id)

\* The tree ids after which room for trees is made, and how many trees.
TreePoints == 0..MaxTreeId

TreeCounts == {1, 2}

\* TreeManager._create_tree_space(target_tree_id, num_trees).
CreateTreeSpace ==
    \E target_tree_id \in TreePoints, num_trees \in TreeCounts :
        LET r == create_tree_space(Db(store, mptt_is_tracking, tracked), target_tree_id,
                                   num_trees)
        IN  /\ last = Idle
            /\ store' = r.store
            /\ tracked' = r.tracked
            /\ prev' = store
            /\ last' = [op |-> "create_tree_space", target_tree_id |-> target_tree_id,
                        num_trees |-> num_trees, recorded |-> tracked, err |-> "ok"]
            /\ UNCHANGED <<mptt_updates_enabled, mptt_is_tracking, scope_ops>>

\* The caller drops the record of a finished insert_node call.
ReturnFromInsert == last.op = "insert_node" /\ Return

NextSpace ==
    \/ InsertNode \/ ReturnFromInsert
    \/ DisableEnter \/ DisableExit \/ DelayEnter
    \/ CreateSpace \/ CloseGap \/ CreateTreeSpace

\* A forest built by insertions, outside a scope, inside a disabled scope or
\* inside a delayed scope, then one call of a space or tree-space operation.
SpaceSpec == Init /\ [][NextSpace]_vars

\* The tree values a row written without the manager's help may carry.
StaleValues == {1, 2}

\* A row is written as it is (bulk_create, or a save made while the updates
\* are disabled): its parent is a row written before it or None, its tree
\* values are whatever the caller left in them.
CreateRow ==
    /\ last = Idle
    /\ Cardinality(DOMAIN store) < MaxNodes
    /\ \E parent \in (DOMAIN store) \cup {None}, lft \in StaleValues, tree_id \in StaleValues :
          store' = Save(Db(store, FALSE, {}),
                        [NewNode EXCEPT !.parent = parent, !.lft = lft,
                                        !.tree_id = tree_id]).store
    /\ UNCHANGED <<mptt_updates_enabled, mptt_is_tracking, tracked, scope_ops, prev, last>>

\* The keys uuid.uuid4() can return: keys that are no sequential tree id.
Uuids == (MaxTreeId + 1)..(MaxTreeId + 2 * MaxNodes)

\* The r smallest keys of Uuids that no row of s carries.
FreshKeys(s, r) ==
    LET unused == Uuids \ TreeIdsOf(s)
    IN  {u \in unused : Cardinality({v \in unused : v < u}) < r}

\* What uuid.uuid4() returns, call after call, during one rebuild of s: keys
\* no row carries, all different, in any order.
Draws(s) == Orders(FreshKeys(s, Cardinality(Roots(s))))

\* TreeManager.rebuild() with no filter, for either setting of the model's
\* root_node_ordering option.
Rebuild ==
    /\ last = Idle
    /\ \E root_node_ordering \in BOOLEAN :
       \E uuids \in (IF root_node_ordering THEN {<<>>} ELSE Draws(store)) :
          /\ store' = rebuild(Db(store, FALSE, {}), None, root_node_ordering, uuids).store
          /\ last' = [op |-> "rebuild", root_node_ordering |-> root_node_ordering,
                      err |-> "ok"]
    /\ prev' = store
    /\ UNCHANGED <<mptt_updates_enabled, mptt_is_tracking, tracked, scope_ops>>

\* TreeManager.partial_rebuild(tree_id).
PartialRebuild ==
    /\ last = Idle
    /\ \E tree_id \in 1..MaxTreeId :
          LET r == partial_rebuild(Db(store, FALSE, {}), tree_id)
          IN  /\ store' = r.db.store
              /\ last' = [op |-> "partial_rebuild", tree_id |-> tree_id, err |-> r.err]
    /\ prev' = store
    /\ UNCHANGED <<mptt_updates_enabled, mptt_is_tracking, tracked, scope_ops>>

\* TreeManager.rebuild(tree_id=tree_id) of a model with root_node_ordering
\* enabled.
RebuildFiltered ==
    /\ last = Idle
    /\ \E tree_id \in 1..MaxTreeId :
          /\ store' = rebuild(Db(store, FALSE, {}), tree_id, TRUE, <<>>).store
          /\ last' = [op |-> "rebuild_filtered", tree_id |-> tree_id,
                      root_node_ordering |-> TRUE, err |-> "ok"]
    /\ prev' = store
    /\ UNCHANGED <<mptt_updates_enabled, mptt_is_tracking, tracked, scope_ops>>

NextRebuild == CreateRow \/ Rebuild \/ PartialRebuild \/ RebuildFiltered

\* A table of rows with arbitrary tree values, then one rebuild, filtered
\* rebuild or partial rebuild.
RebuildSpec == Init /\ [][NextRebuild]_vars

\* A position no operation knows.
InvalidPositions == {"middle"}

\* insert_node(node, target, position, save=True) on a new node with a
\* position outside the four.
InsertNodeAt ==
    \E target \in Targets(store), position \in InvalidPositions :
        /\ Cardinality(DOMAIN store) < MaxNodes
        /\ Call("insert_node",
                insert_node(Db(store, mptt_is_tracking, tracked), NewNode, target,
                            position, TRUE, FALSE, TRUE),
                Cardinality(DOMAIN store) + 1, target, position)

\* move_node(node, target, position) with a position outside the four.
MoveNodeAt ==
    \E pk \in DOMAIN store, target \in Targets(store), position \in InvalidPositions :
        Call("move_node",
             move_node(Db(store, mptt_is_tracking, tracked), Load(store, pk), target,
                       position),
             pk, target, position)

RECURSIVE Descriptions(_, _, _, _)
RECURSIVE Forests(_, _, _, _)
\* The nested descriptions of n nodes handed to build_tree_nodes: the keys
\* ('id') are pk, pk + 1, ... in the order of the description; when linked
\* every node names its parent ('parent_id'), otherwise none does.
Descriptions(n, pk, parent, linked) ==
    {[pk |-> pk, parent |-> parent, children |-> cs] :
        cs \in Forests(n - 1, pk + 1, IF linked THEN pk ELSE None, linked)}

\* The sequences of descriptions that hold m nodes together.
Forests(m, pk, parent, linked) ==
    IF m = 0 THEN {<<>>}
    ELSE UNION {{<<h>> \o f : h \in Descriptions(k, pk, parent, linked),
                              f \in Forests(m - k, pk + k, parent, linked)} :
                k \in 1..m}

\* The parent the first node of a linked description names: the node the
\* anchor makes its parent.
RootParent(target, position) ==
    IF target.pk = None THEN None
    ELSE IF position \in {"left", "right"} THEN target.parent
    ELSE target.pk

\* The descriptions a caller hands over with an anchor, for a table s.
DescriptionsFor(s, target, position) ==
    UNION {Descriptions(n, Cardinality(DOMAIN s) + 1,
                        IF linked THEN RootParent(target, position) ELSE None, linked) :
           n \in 1..(MaxNodes - Cardinality(DOMAIN s)), linked \in BOOLEAN}

\* One call of build_tree_nodes: the table and the record take what the call
\* leaves, last keeps the description and the nodes returned.
BuildCall(data, target, position) ==
    /\ last = Idle
    /\ IF mptt_is_tracking THEN scope_ops < MaxScopeOps ELSE scope_ops = 0
    /\ scope_ops' = IF mptt_is_tracking THEN scope_ops + 1 ELSE scope_ops
    /\ LET r == build_tree_nodes(Db(store, mptt_is_tracking, tracked), data, target,
                                 position)
       IN  /\ store' = r.db.store
           /\ tracked' = r.db.tracked
           /\ last' = [op |-> "build_tree_nodes", node |-> data.pk, target |-> target.pk,
                       position |-> position, err |-> r.err, data |-> data,
                       nodes |-> r.nodes, recorded |-> tracked]
    /\ prev' = store
    /\ UNCHANGED <<mptt_updates_enabled, mptt_is_tracking>>

\* build_tree_nodes(data, target, position) with a position outside the four.
BuildTreeNodesAt ==
    \E target \in Targets(store), position \in InvalidPositions :
        \E data \in DescriptionsFor(store, target, position) :
            BuildCall(data, target, position)

\* The caller drops the record of a finished move_node call.
ReturnFromMove == last.op = "move_node" /\ Return

\* The caller stores the nodes build_tree_nodes returned (bulk_create) and
\* drops the record of the call.
BulkCreate ==
    /\ last.op = "build_tree_nodes"
    /\ LET r == bulk_create(Db(store, mptt_is_tracking, tracked), last.nodes)
       IN  /\ WithinBounds(r.store)
           /\ store' = r.store
    /\ prev' = EmptyStore
    /\ last' = Idle
    /\ UNCHANGED <<mptt_updates_enabled, mptt_is_tracking, tracked, scope_ops>>

NextPosition ==
    \/ InsertNode \/ ReturnFromInsert \/ ReturnFromMove
    \/ InsertNodeAt \/ MoveNodeAt \/ BuildTreeNodesAt \/ BulkCreate

\* A forest built by insertions, then calls with a position outside the four;
\* the nodes a build returns are stored before the next call.
PositionSpec == Init /\ [][NextPosition]_vars

\* TreeManager.build_tree_nodes(data, target, position).
BuildTreeNodes ==
    \E target \in Targets(store), position \in Positions :
        /\ (target.pk = None => position = "last-child")
        /\ \E data \in DescriptionsFor(store, target, position) :
              BuildCall(data, target, position)

NextBuild ==
    InsertNode \/ ReturnFromInsert \/ DelayEnter \/ BuildTreeNodes \/ BulkCreate

\* A forest built by insertions and by stored builds, outside a scope or
\* inside a delayed scope, and calls of build_tree_nodes on it; the nodes a
\* build returns are stored before the next call.
BuildSpec == Init /\ [][NextBuild]_vars

\* The models a manager is attached to: abstract or not, proxy or not, and
\* whether the model is the one that holds the tree fields.
Models == [abstract : BOOLEAN, proxy : BOOLEAN, owner : BOOLEAN]

\* One entry of a scope: the flags take what the entry leaves, last keeps the
\* model, the outcome and the flags before the entry.  An entry that succeeds
\* is the entry of the outermost scope; a refused one happens anywhere.
EnterCall(op, model, r) ==
    /\ last = Idle
    /\ r.err = "ok" => mptt_updates_enabled
    /\ mptt_updates_enabled' = r.enabled
    /\ mptt_is_tracking' = r.tracking
    /\ tracked' = r.tracked
    /\ last' = [op |-> op, node |-> None, target |-> None, position |-> "last-child",
                err |-> r.err, model |-> model,
                enabled |-> mptt_updates_enabled, tracking |-> mptt_is_tracking]
    /\ prev' = store
    /\ UNCHANGED <<store, scope_ops>>

\* with Model.objects.disable_mptt_updates(): on any model.
DisableMpttUpdates ==
    \E model \in Models :
        LET d == disable_mptt_updates_enter(model, mptt_updates_enabled)
        IN  EnterCall("disable_mptt_updates", model,
                      [err |-> d.err, enabled |-> d.enabled,
                       tracking |-> mptt_is_tracking, tracked |-> tracked])

\* with Model.objects.delay_mptt_updates(): on any model.
DelayMpttUpdates ==
    \E model \in Models :
        EnterCall("delay_mptt_updates", model,
                  delay_mptt_updates_enter(model, mptt_updates_enabled,
                                           mptt_is_tracking, tracked))

NextScope ==
    \/ InsertNode \/ Return
    \/ DisableMpttUpdates \/ DelayMpttUpdates
    \/ DisableExit \/ DelayExit

\* Insertions, and scopes entered on any model and left again.
ScopeSpec == Init /\ [][NextScope]_vars

\* move_node(node, target, position) sends its first statement to the store.
\* last keeps the call and the number of statements sent; the call is running
\* until its last statement is sent.
MoveBegin ==
    /\ last = Idle
    /\ ~mptt_is_tracking
    /\ \E pk \in DOMAIN store, target \in Targets(store), position \in Positions :
          LET db == Db(store, mptt_is_tracking, tracked)
              r == move_node(db, Load(store, pk), target, position)
              q == move_node_statements(db, Load(store, pk), target, position)
          IN  /\ (target.pk = None => position = "last-child")
              /\ r.err = "ok"
              /\ WithinBounds(r.db.store)
              /\ store' = q[1].store
              /\ last' = [op |-> "move_node", node |-> pk, target |-> target.pk,
                          position |-> position, statements |-> 1,
                          err |-> IF Len(q) = 1 THEN "ok" ELSE "running"]
    /\ prev' = store
    /\ UNCHANGED <<mptt_updates_enabled, mptt_is_tracking, tracked, scope_ops>>

\* The statements of the running call, computed from the table it was made on.
RunningStatements ==
    move_node_statements(Db(prev, FALSE, {}), Load(prev, last.node),
                         IF last.target = None THEN NewNode ELSE Load(prev, last.target),
                         last.position)

\* The running move_node call sends its next statement.
MoveStatement ==
    /\ last.op = "move_node" /\ last.err = "running"
    /\ LET q == RunningStatements
           i == last.statements + 1
       IN  /\ store' = q[i].store
           /\ last' = [last EXCEPT !.statements = i,
                                   !.err = IF i = Len(q) THEN "ok" ELSE "running"]
    /\ UNCHANGED <<mptt_updates_enabled, mptt_is_tracking, tracked, scope_ops, prev>>

\* The running move_node call fails between two statements (the connection
\* is lost, the process dies): nothing more is sent.
MoveFailure ==
    /\ last.op = "move_node" /\ last.err = "running"
    /\ last' = [last EXCEPT !.err = "OperationalError"]
    /\ UNCHANGED <<store, mptt_updates_enabled, mptt_is_tracking, tracked, scope_ops, prev>>

\* The caller drops the record of a call that has finished without an error.
ReturnFromFinished == last.err = "ok" /\ Return

NextStatement ==
    InsertNode \/ ReturnFromFinished \/ MoveBegin \/ MoveStatement \/ MoveFailure

\* A forest built by insertions and moves outside a scope, every move_node
\* call sending its statements one at a time; a call that fails is the last.
StatementSpec == Init /\ [][NextStatement]_vars

\* The model objects a caller can hold in memory: one per key, each with a
\* right value and a cached parent that is any key or None; the cached
\* parents need not form a tree.
CachedGraphs ==
    {[k \in NodeIds |-> [rght |-> 2 * k, parent |-> p[k]]] :
        p \in [NodeIds -> {None} \cup NodeIds]}

\* The right shifts insert_node passes on: twice the size of the inserted
\* subtree.
RightShifts == {2, 4}

\* insert_node's call of _post_insert_update_cached_parent_right(parent,
\* right_shift) on the objects in memory.
PostInsertUpdateCachedParentRight ==
    /\ last = Idle
    /\ \E objects \in CachedGraphs, parent \in NodeIds, right_shift \in RightShifts :
          LET r == post_insert_update_cached_parent_right(objects, parent, right_shift, {})
          IN  last' = [op |-> "post_insert_update_cached_parent_right",
                       instance |-> parent, right_shift |-> right_shift,
                       objects |-> objects, updated |-> r.objects, err |-> r.err]
    /\ UNCHANGED <<store, mptt_updates_enabled, mptt_is_tracking, tracked, scope_ops, prev>>

NextCached == PostInsertUpdateCachedParentRight \/ Return

\* The cached-parent propagation applied to every graph of cached parents.
CachedSpec == Init /\ [][NextCached]_vars

\* A model on which scopes can be opened.
ConcreteModel == [abstract |-> FALSE, proxy |-> FALSE, owner |-> TRUE]

ScopeKinds == {"disable_mptt_updates", "delay_mptt_updates"}

\* A scope is entered inside an open scope: delay_mptt_updates while the model
\* tracks, or disable_mptt_updates while the updates are disabled.  last keeps
\* what the scope found when it was entered.
NestedEnter ==
    /\ last = Idle
    /\ ~mptt_updates_enabled
    /\ \E kind \in ScopeKinds :
          LET r == IF kind = "delay_mptt_updates"
                   THEN delay_mptt_updates_enter(ConcreteModel, mptt_updates_enabled,
                                                 mptt_is_tracking, tracked)
                   ELSE disable_mptt_updates_enter(ConcreteModel, mptt_updates_enabled) @@
                        [tracking |-> mptt_is_tracking, tracked |-> tracked]
          IN  /\ kind = "delay_mptt_updates" => mptt_is_tracking
              /\ mptt_updates_enabled' = r.enabled
              /\ mptt_is_tracking' = r.tracking
              /\ tracked' = r.tracked
              /\ last' = [op |-> "nested_enter", kind |-> kind, err |-> r.err,
                          enabled |-> mptt_updates_enabled,
                          tracking |-> mptt_is_tracking, recorded |-> tracked]
    /\ prev' = store
    /\ UNCHANGED <<store, scope_ops>>

\* The block of the scope entered inside an open scope ends, cleanly or by an
\* error that the caller catches before it reaches the outer scope.
NestedExit ==
    /\ last.op = "nested_enter"
    /\ \E raised \in {"ok"} \cup BlockErrors \cup Interrupts, results \in Orders(tracked) :
          LET db == Db(store, mptt_is_tracking, tracked)
              r == IF last.kind = "delay_mptt_updates"
                   THEN delay_mptt_updates_exit(db, last.tracking, raised, results)
                   ELSE [err |-> raised, db |-> db, calls |-> <<>>]
          IN  /\ store' = r.db.store
              /\ mptt_is_tracking' = r.db.is_tracking
              /\ tracked' = r.db.tracked
              /\ mptt_updates_enabled' =
                    disable_mptt_updates_exit(last.enabled, mptt_updates_enabled)
              /\ last' = [op |-> "nested_exit", kind |-> last.kind, err |-> r.err,
                          enabled |-> mptt_updates_enabled,
                          tracking |-> mptt_is_tracking, recorded |-> tracked,
                          raised |-> raised, calls |-> r.calls]
    /\ prev' = store
    /\ UNCHANGED scope_ops

NextNested ==
    \/ InsertNode \/ Return
    \/ DelayEnter \/ DelayExit \/ DelayAbort
    \/ DisableEnter \/ DisableExit
    \/ NestedEnter \/ NestedExit

\* Scopes of both kinds, each holding inner scopes that are entered and left
\* while it is open.
NestedSpec == Init /\ [][NextNested]_vars

\* TreeManager.insert_node(node, target, position, save=True) on a new node of
\* a model with root_node_ordering disabled: every tree id in the table is a
\* generated key, and the call draws one no row carries.
InsertNodeUnordered ==
    /\ last = Idle
    /\ ~mptt_is_tracking
    /\ TreeIdsOf(store) \subseteq Uuids
    /\ Cardinality(DOMAIN store) < MaxNodes
    /\ \E target \in Targets(store), position \in Positions, default \in FreshKeys(store, 2) :
          LET r == insert_node_unordered(Db(store, mptt_is_tracking, tracked), NewNode,
                                         target, position, TRUE, FALSE, TRUE, default)
          IN  /\ (target.pk = None => position = "last-child")
              /\ store' = r.db.store
              /\ last' = [op |-> "insert_node", node |-> Cardinality(DOMAIN store) + 1,
                          target |-> target.pk, position |-> position, err |-> r.err]
    /\ prev' = store
    /\ UNCHANGED <<mptt_updates_enabled, mptt_is_tracking, tracked, scope_ops>>

NextKeyed == InsertNode \/ InsertNodeUnordered \/ Return

\* Forests built by insertions, on a model with sequential tree ids or on one
\* with generated tree keys.
KeyedSpec == Init /\ [][NextKeyed]_vars

\* ------------------------------------------------- nested-set invariants
TreeValues(s, t) ==
    {s[k].lft : k \in NodesOfTree(s, t)} \cup {s[k].rght : k \in NodesOfTree(s, t)}

\* The left and right values of every tree are exactly 1..2N.
IntervalsCover(s) ==
    \A t \in TreeIdsOf(s) : TreeValues(s, t) = 1..(2 * Cardinality(NodesOfTree(s, t)))

\* Interval containment is descent by parent pointers.
ContainmentIsDescent(s) ==
    \A a, b \in DOMAIN s : IsDescendant(s, a, b) <=> Contains(s, b, a)

\* One root per tree id, and every root starts its tree at 1.
OneRootPerTree(s) ==
    /\ \A t \in TreeIdsOf(s) : Cardinality({k \in Roots(s) : s[k].tree_id = t}) = 1
    /\ \A k \in Roots(s) : s[k].lft = 1

\* level is the number of ancestors.
LevelsAreDepths(s) ==
    \A k \in DOMAIN s :
        IF s[k].parent = None THEN s[k].level = 0
        ELSE s[k].level = s[s[k].parent].level + 1

\* All nodes of a tree carry the tree id of their parent.
TreeIdsFollowParents(s) ==
    \A k \in DOMAIN s : s[k].parent # None => s[k].tree_id = s[s[k].parent].tree_id

Subtree(s, k) == {k} \cup {d \in DOMAIN s : IsDescendant(s, d, k)}

Moved == last.op = "move_node" /\ last.err = "ok" /\ prev # store

Inserted == last.op = "insert_node" /\ last.err = "ok"

\* ------------------------------------------------------------------ claims

\* C1: after any sequence of insert_node(save=True) and move_node calls in
\* immediate mode, the left and right values of the nodes of every tree are
\* pairwise distinct and are exactly the integers 1..2N, N the number of
\* nodes of the tree.
C1_IntervalsCover == IntervalsCover(store)

\* A move between two trees that both keep nodes, and an insertion under a
\* node that has a later sibling, have happened.
C1_Witness ==
    /\ Moved
    /\ prev[last.node].tree_id # store[last.node].tree_id
    /\ Cardinality(NodesOfTree(store, store[last.node].tree_id)) >= 3
    /\ \E k \in DOMAIN store : store[k].tree_id = prev[last.node].tree_id

C3_OneRootPerTree == OneRootPerTree(store)

\* A child has been made the root of a tree placed before an existing tree.
C3_Witness ==
    /\ Moved
    /\ prev[last.node].parent # None
    /\ store[last.node].parent = None
    /\ last.position = "left"
    /\ Cardinality(Roots(store)) >= 3

MoveCall == last.op = "move_node" /\ last.target # None

\* The cases _move_node hands to _make_sibling_of_root_node.
RootSiblingCall ==
    MoveCall /\ prev[last.target].parent = None /\ last.position \in {"left", "right"}

\* C6: in immediate mode move_node with target equal to node, or target a
\* descendant of node, raises InvalidMove for every position and for node a
\* root or a child, and leaves every row unchanged.
C6_InvalidMoveRaised ==
    (MoveCall /\ (last.target = last.node \/ IsDescendant(prev, last.target, last.node)))
        => (last.err = "InvalidMove" /\ store = prev)

\* A child has been asked to become the right sibling of one of its
\* descendants.
C6_Witness ==
    /\ MoveCall
    /\ last.err = "InvalidMove"
    /\ prev[last.node].parent # None
    /\ last.position = "right"
    /\ IsDescendant(prev, last.target, last.node)

Siblings(s, k) == {c \in DOMAIN s : c # k /\ s[c].parent = s[k].parent}

\* node is where move_node(node, target, position) would put it.
AlreadyThere(s, node, target, position) ==
    /\ node # target
    /\ CASE position = "first-child" ->
                /\ s[node].parent = target
                /\ \A c \in Siblings(s, node) : s[node].lft < s[c].lft
         [] position = "last-child" ->
                /\ s[node].parent = target
                /\ \A c \in Siblings(s, node) : s[c].lft < s[node].lft
         [] position = "left" ->
                /\ s[node].parent = s[target].parent
                /\ IF s[target].parent = None
                   THEN /\ s[node].tree_id < s[target].tree_id
                        /\ \A c \in Roots(s) : ~(s[node].tree_id < s[c].tree_id
                                                 /\ s[c].tree_id < s[target].tree_id)
                   ELSE /\ s[node].lft < s[target].lft
                        /\ \A c \in Siblings(s, node) :
                               ~(s[node].lft < s[c].lft /\ s[c].lft < s[target].lft)
         [] position = "right" ->
                /\ s[node].parent = s[target].parent
                /\ IF s[target].parent = None
                   THEN /\ s[target].tree_id < s[node].tree_id
                        /\ \A c \in Roots(s) : ~(s[target].tree_id < s[c].tree_id
                                                 /\ s[c].tree_id < s[node].tree_id)
                   ELSE /\ s[target].lft < s[node].lft
                        /\ \A c \in Siblings(s, node) :
                               ~(s[target].lft < s[c].lft /\ s[c].lft < s[node].lft)

\* C7: in immediate mode move_node of a node to the position it already holds
\* completes without error and leaves every row unchanged.
C7_SamePositionNoOp ==
    (MoveCall /\ AlreadyThere(prev, last.node, last.target, last.position))
        => (last.err = "ok" /\ store = prev)

\* A node with a subtree that is already the immediate left sibling of a
\* non-root target has been moved to the left of it.
C7_Witness ==
    /\ MoveCall
    /\ last.position = "left"
    /\ prev[last.target].parent # None
    /\ AlreadyThere(prev, last.node, last.target, last.position)
    /\ \E d \in DOMAIN prev : IsDescendant(prev, d, last.node)

\* The value after which move_node(node, target, position) places the subtree.
Boundary(s, target, position) ==
    CASE position = "first-child" -> s[target].lft
      [] position = "last-child" -> s[target].rght - 1
      [] position = "left" -> s[target].lft - 1
      [] position = "right" -> s[target].rght

NewLevel(s, target, position) ==
    IF position \in {"first-child", "last-child"}
    THEN s[target].level + 1 ELSE s[target].level

ShiftAbove(x, bound, by) == IF x > bound THEN x + by ELSE x

\* The call observed moved a child into another tree, not as a root's sibling.
ChildToNewTree ==
    /\ MoveCall /\ last.err = "ok" /\ ~RootSiblingCall
    /\ prev[last.node].parent # None
    /\ prev[last.node].tree_id # prev[last.target].tree_id

\* C8: a child with subtree width w moved relative to a target of another
\* tree: in the destination tree the values above the insertion boundary grow
\* by w and nothing else changes; the subtree takes the w values after the
\* boundary, the destination tree_id and one common level shift; in the source
\* tree the values above the node's old right shrink by w.
C8_ChildToNewTree ==
    ChildToNewTree =>
        LET n == last.node
            tg == last.target
            L == prev[n].lft
            R == prev[n].rght
            w == R - L + 1
            b == Boundary(prev, tg, last.position)
            dest == prev[tg].tree_id
            src == prev[n].tree_id
            sub == Subtree(prev, n)
            dlevel == NewLevel(prev, tg, last.position) - prev[n].level
        IN  /\ \A k \in NodesOfTree(prev, dest) :
                   store[k] = [prev[k] EXCEPT !.lft = ShiftAbove(@, b, w),
                                              !.rght = ShiftAbove(@, b, w)]
            /\ \A k \in sub :
                   /\ store[k].tree_id = dest
                   /\ store[k].lft = prev[k].lft - L + b + 1
                   /\ store[k].rght = prev[k].rght - L + b + 1
                   /\ store[k].level = prev[k].level + dlevel
                   /\ (k # n => store[k].parent = prev[k].parent)
            /\ store[n].level = NewLevel(prev, tg, last.position)
            /\ \A k \in NodesOfTree(prev, src) \ sub :
                   store[k] = [prev[k] EXCEPT !.lft = ShiftAbove(@, R, -w),
                                              !.rght = ShiftAbove(@, R, -w)]

\* A child with a child of its own has been moved before the end of another
\* tree, out of the middle of its own.
C8_Witness ==
    /\ ChildToNewTree
    /\ prev[last.node].rght - prev[last.node].lft >= 3
    /\ \E k \in NodesOfTree(prev, prev[last.target].tree_id) :
           prev[k].rght > Boundary(prev, last.target, last.position)
    /\ \E k \in DOMAIN prev : prev[k].tree_id = prev[last.node].tree_id
                              /\ prev[k].rght > prev[last.node].rght

\* The call observed is move_node(node, None) on a child.
Detach ==
    /\ last.op = "move_node" /\ last.err = "ok" /\ last.target = None
    /\ prev[last.node].parent # None

\* C9: detaching a child n (left L, right R, level V) into a new tree: its
\* subtree gets the new tree_id, left and right reduced by L-1 and level by V;
\* in the old tree the values above R are reduced by R-L+1 and nothing else
\* changes; the nodes of every third tree are unchanged.
C9_Detach ==
    Detach =>
        LET n == last.node
            L == prev[n].lft
            R == prev[n].rght
            V == prev[n].level
            sub == Subtree(prev, n)
            old == prev[n].tree_id
        IN  /\ store[n].tree_id \notin TreeIdsOf(prev)
            /\ store[n] = [parent |-> None, lft |-> 1, rght |-> R - L + 1, level |-> 0,
                           tree_id |-> store[n].tree_id]
            /\ \A k \in sub \ {n} :
                   store[k] = [prev[k] EXCEPT !.tree_id = store[n].tree_id,
                                              !.lft = @ - (L - 1),
                                              !.rght = @ - (L - 1),
                                              !.level = @ - V]
            /\ \A k \in NodesOfTree(prev, old) \ sub :
                   store[k] = [prev[k] EXCEPT !.lft = ShiftAbove(@, R, -(R - L + 1)),
                                              !.rght = ShiftAbove(@, R, -(R - L + 1))]
            /\ \A k \in DOMAIN prev : prev[k].tree_id # old => store[k] = prev[k]

\* A child with a child of its own has been detached from a tree with a value
\* above its right, while another tree exists.
C9_Witness ==
    /\ Detach
    /\ prev[last.node].rght - prev[last.node].lft >= 3
    /\ \E k \in DOMAIN prev : /\ prev[k].tree_id = prev[last.node].tree_id
                              /\ prev[k].rght > prev[last.node].rght
    /\ \E k \in DOMAIN prev : prev[k].tree_id # prev[last.node].tree_id

RootOrder(s, a, b) == s[a].tree_id < s[b].tree_id

RootsDistinct(s) == \A a, b \in Roots(s) : a # b => s[a].tree_id # s[b].tree_id

\* C10: moving any node to the left or right of a root target makes it a
\* root whose tree is immediately before or after the target's tree in
\* tree_id order; the order of the other trees is unchanged, the nodes of a
\* tree share one tree_id and no two trees share a tree_id.
C10_RootSibling ==
    (RootSiblingCall /\ last.err = "ok") =>
        LET n == last.node
            tg == last.target
        IN  /\ store[n].parent = None
            /\ store[tg].parent = None
            /\ IF last.position = "left"
               THEN RootOrder(store, n, tg) ELSE RootOrder(store, tg, n)
            /\ \A c \in Roots(store) :
                   ~(Min({store[n].tree_id, store[tg].tree_id}) < store[c].tree_id
                     /\ store[c].tree_id < Max({store[n].tree_id, store[tg].tree_id}))
            /\ \A a, c \in Roots(store) \ {n} :
                   RootOrder(prev, a, c) <=> RootOrder(store, a, c)
            /\ Roots(store) = Roots(prev) \cup {n}
            /\ TreeIdsFollowParents(store)
            /\ RootsDistinct(store)

\* A child of the target's own tree has been placed to the left of its root
\* while another tree came first, and the tree ids were renumbered.
C10_Witness ==
    /\ RootSiblingCall /\ last.err = "ok"
    /\ last.position = "left"
    /\ prev[last.node].parent # None
    /\ prev[last.node].tree_id = prev[last.target].tree_id
    /\ \E c \in Roots(prev) : prev[c].tree_id > prev[last.target].tree_id
    /\ \E d \in DOMAIN prev : IsDescendant(prev, d, last.node)

\* C5: after a delay_mptt_updates scope in which nodes were inserted and
\* moved exits without error, every tree satisfies the nested-set invariants
\* (values exactly 1..2N, containment matches the parent chain, level equals
\* depth, all nodes of a tree share its tree_id) without a further rebuild.
C5_ConsistentAfterDelay ==
    (last.op = "delay_exit" /\ last.err = "ok") =>
        /\ IntervalsCover(store)
        /\ ContainmentIsDescent(store)
        /\ LevelsAreDepths(store)
        /\ TreeIdsFollowParents(store)

\* The call observed is one _move_node hands to _move_root_node and it succeeded.
RootToTree ==
    /\ MoveCall /\ last.err = "ok" /\ ~RootSiblingCall
    /\ prev[last.node].parent = None

\* C11: a root (tree t, N nodes) moved to a child position, or to a sibling
\* position of a non-root target, in another tree u: no node keeps tree_id t;
\* the N nodes get tree_id u, left and right shifted by one common offset into
\* the 2N values after the insertion boundary, and level shifted by one common
\* amount; parents among them are unchanged except the moved root's; the
\* values of u above the boundary grow by 2N and every other row is unchanged.
C11_RootToTree ==
    RootToTree =>
        LET n == last.node
            tg == last.target
            t == prev[n].tree_id
            u == prev[tg].tree_id
            moved == NodesOfTree(prev, t)
            N == Cardinality(moved)
            b == Boundary(prev, tg, last.position)
            dlevel == NewLevel(prev, tg, last.position)
        IN  /\ t # u
            /\ NodesOfTree(store, t) = {}
            /\ \A k \in moved :
                   /\ store[k].tree_id = u
                   /\ store[k].lft = prev[k].lft + b
                   /\ store[k].rght = prev[k].rght + b
                   /\ store[k].level = prev[k].level + dlevel
                   /\ (k # n => store[k].parent = prev[k].parent)
            /\ {store[k].lft : k \in moved} \cup {store[k].rght : k \in moved}
                   = (b + 1)..(b + 2 * N)
            /\ store[n].parent = IF last.position \in {"first-child", "last-child"}
                                 THEN tg ELSE prev[tg].parent
            /\ \A k \in NodesOfTree(prev, u) :
                   store[k] = [prev[k] EXCEPT !.lft = ShiftAbove(@, b, 2 * N),
                                              !.rght = ShiftAbove(@, b, 2 * N)]
            /\ \A k \in DOMAIN prev :
                   prev[k].tree_id \notin {t, u} => store[k] = prev[k]

\* A root with a child has become the left sibling of a non-root node of
\* another tree.
C11_Witness ==
    /\ RootToTree
    /\ last.position = "left"
    /\ Cardinality(NodesOfTree(prev, prev[last.node].tree_id)) >= 2
    /\ \E k \in NodesOfTree(prev, prev[last.target].tree_id) :
           prev[k].rght > Boundary(prev, last.target, last.position)

\* The call observed is move_node(node, None) and it succeeded.
MoveToNone == last.op = "move_node" /\ last.target = None /\ last.err = "ok"

\* k is a root at left 1, level 0, whose tree_id is above that of every other tree.
LastRoot(s, k) ==
    /\ s[k].parent = None /\ s[k].level = 0 /\ s[k].lft = 1
    /\ \A j \in DOMAIN s : s[j].tree_id # s[k].tree_id => s[j].tree_id < s[k].tree_id

\* C12 as stated: in immediate mode, after move_node(node, None) the node is
\* a root (parent null, level 0, left 1) whose tree_id is greater than that of
\* every other tree, whether it was a child or already a root before the call.
C12_TargetNoneLastRoot == MoveToNone => LastRoot(store, last.node)

\* C12 amended: after move_node(node, None) in immediate mode, a node that
\* was a child is a root (parent null, level 0, left 1) whose tree_id is
\* greater than that of every other tree; for a node that was already a root
\* the call changes no row, so it keeps its tree_id.
C12_TargetNoneChildLastRoot ==
    MoveToNone =>
        IF prev[last.node].parent # None
        THEN LastRoot(store, last.node)
        ELSE store = prev /\ store[last.node].parent = None

\* move_node(node, None) has been called on a root that has a child and is
\* followed by another tree.
C12_Witness ==
    /\ MoveToNone
    /\ prev[last.node].parent = None
    /\ \E k \in DOMAIN prev : prev[k].tree_id > prev[last.node].tree_id
    /\ \E d \in DOMAIN prev : IsDescendant(prev, d, last.node)

\* The call observed is rebuild() with no filter.
Rebuilt == last.op = "rebuild" /\ last.err = "ok"

\* a comes before b in the manager's order (tree_id, left) of the table s.
OrderedBefore(s, a, b) ==
    \/ s[a].tree_id < s[b].tree_id
    \/ s[a].tree_id = s[b].tree_id /\ s[a].lft < s[b].lft

\* C13: after rebuild() with no filters on any acyclic parent-pointer forest,
\* whatever the previous tree values were: each tree's left and right values
\* are exactly 1..2N with the root at left 1, a node's interval strictly
\* contains exactly the intervals of its descendants, the children of a node
\* appear left to right in the order the manager reads them, level equals
\* depth, all nodes of a tree carry the tree_id of its root, and the parent
\* pointers are unchanged.
C13_RebuildNumbers ==
    Rebuilt =>
        /\ DOMAIN store = DOMAIN prev
        /\ \A k \in DOMAIN store : store[k].parent = prev[k].parent
        /\ IntervalsCover(store)
        /\ OneRootPerTree(store)
        /\ ContainmentIsDescent(store)
        /\ \A k \in DOMAIN store : store[k].level = Depth(store, k, Cardinality(DOMAIN store))
        /\ TreeIdsFollowParents(store)
        /\ \A a, b \in DOMAIN store :
               (prev[a].parent # None /\ prev[a].parent = prev[b].parent
                    /\ OrderedBefore(prev, a, b))
                 => store[a].rght < store[b].lft

\* A forest of two trees, one with a node that has two children read in the
\* reverse of their key order, has been rebuilt from values that were wrong.
C13_Witness ==
    /\ Rebuilt
    /\ Cardinality(Roots(store)) >= 2
    /\ \E a, b \in DOMAIN store :
           /\ a < b /\ prev[a].parent # None /\ prev[a].parent = prev[b].parent
           /\ OrderedBefore(prev, b, a)
    /\ ~IntervalsCover(prev)

\* The table a second rebuild() with the same setting makes of the table s.
RebuiltAgain(s, uuids) ==
    rebuild(Db(s, FALSE, {}), None, last.root_node_ordering, uuids).store

\* The draws a second rebuild() can make.
SecondDraws(s) == IF last.root_node_ordering THEN {<<>>} ELSE Draws(s)

\* C14 as stated: for either root-ordering setting, a second rebuild() with
\* unchanged parent pointers and child order leaves every node with the left,
\* right, level and tree_id the first call gave it.
C14_RebuildIdempotent ==
    Rebuilt => \A uuids \in SecondDraws(store) : RebuiltAgain(store, uuids) = store

\* C14 amended: a second rebuild() leaves every node with the left, right and
\* level the first call gave it; with root_node_ordering enabled it also
\* leaves every tree_id, with root_node_ordering disabled every tree gets a
\* tree_id that no node had after the first call.
C14_RebuildIdempotentOrdered ==
    Rebuilt =>
        \A uuids \in SecondDraws(store) :
            LET again == RebuiltAgain(store, uuids)
            IN  /\ DOMAIN again = DOMAIN store
                /\ \A k \in DOMAIN store :
                       /\ again[k].parent = store[k].parent
                       /\ again[k].lft = store[k].lft
                       /\ again[k].rght = store[k].rght
                       /\ again[k].level = store[k].level
                       /\ IF last.root_node_ordering
                          THEN again[k].tree_id = store[k].tree_id
                          ELSE again[k].tree_id \notin TreeIdsOf(store)

\* rebuild() with root_node_ordering enabled has renumbered a table of three
\* trees, one of them with a child, whose values were wrong.
C14_Witness ==
    /\ Rebuilt
    /\ last.root_node_ordering
    /\ Cardinality(Roots(store)) >= 3
    /\ Cardinality(DOMAIN store) > Cardinality(Roots(store))
    /\ prev # store

\* The call observed is partial_rebuild(tree_id).
PartiallyRebuilt == last.op = "partial_rebuild"

RootsOfTree(s, t) == {k \in Roots(s) : s[k].tree_id = t}

\* The rows partial_rebuild(t) reads below the root r: r and the rows of
\* tree_id t linked to it by parents of tree_id t.
RECURSIVE Reached(_, _, _, _)
Reached(s, t, S, n) ==
    IF n = 0 THEN S
    ELSE Reached(s, t, S \cup {k \in DOMAIN s : s[k].tree_id = t /\ s[k].parent \in S}, n - 1)

\* C15: partial_rebuild(tree_id) leaves the table unchanged when no root has
\* that tree_id; raises the corruption error and leaves the table unchanged
\* when more than one root has it; and when exactly one root has it, raises
\* nothing and renumbers that root's tree (values exactly 1..2M from the root
\* at left 1 and level 0, tree_id kept), leaving every other row unchanged.
C15_PartialRebuild ==
    PartiallyRebuilt =>
        LET t == last.tree_id
            roots == RootsOfTree(prev, t)
            tree == Reached(prev, t, roots, Cardinality(DOMAIN prev))
        IN  CASE Cardinality(roots) = 0 -> last.err = "ok" /\ store = prev
              [] Cardinality(roots) > 1 -> last.err = "RuntimeError" /\ store = prev
              [] OTHER ->
                    /\ last.err = "ok"
                    /\ DOMAIN store = DOMAIN prev
                    /\ \A k \in DOMAIN prev \ tree : store[k] = prev[k]
                    /\ \A k \in tree :
                           /\ store[k].tree_id = t
                           /\ store[k].parent = prev[k].parent
                           /\ store[k].level = Depth(store, k, Cardinality(DOMAIN store))
                    /\ \A k \in roots : store[k].lft = 1
                    /\ {store[k].lft : k \in tree} \cup {store[k].rght : k \in tree}
                           = 1..(2 * Cardinality(tree))
                    /\ \A a, b \in tree :
                           IsDescendant(store, a, b)
                             <=> (store[b].lft < store[a].lft /\ store[a].rght < store[b].rght)

\* partial_rebuild has been called for a tree id that two roots carry, in a
\* table where one of them has a child.
C15_Witness ==
    /\ PartiallyRebuilt
    /\ last.err = "RuntimeError"
    /\ Cardinality(RootsOfTree(prev, last.tree_id)) = 2
    /\ \E k \in DOMAIN prev : prev[k].parent \in RootsOfTree(prev, last.tree_id)

\* The recorded tree ids for which the scope end called partial_rebuild.
CalledFor == {last.calls[i].tree_id : i \in 1..Len(last.calls)}

\* C16: when the outermost delay_mptt_updates scope exits without an error,
\* partial_rebuild is called exactly once for each tree id recorded during
\* the scope and for no other tree id, and every call is made after the
\* block has finished and after tracking has been stopped.
C16_RebuildEachRecorded ==
    last.op = "delay_exit" =>
        /\ last.err = "ok"
        /\ ~mptt_is_tracking
        /\ CalledFor = last.recorded
        /\ Len(last.calls) = Cardinality(last.recorded)
        /\ \A i \in 1..Len(last.calls) : ~last.calls[i].is_tracking

\* A scope that recorded two trees has ended and changed the table.
C16_Witness ==
    /\ last.op = "delay_exit"
    /\ Cardinality(last.recorded) >= 2
    /\ store # prev

\* C17: when an error is raised inside a delay_mptt_updates block, tracking
\* is stopped, the recorded tree ids are discarded, partial_rebuild is called
\* for no tree, the scope end changes no stored value, and the same error
\* reaches the caller.
C17_AbortDiscards ==
    last.op = "delay_abort" =>
        /\ ~mptt_is_tracking
        /\ tracked = {}
        /\ last.calls = <<>>
        /\ store = prev
        /\ last.err = last.raised
        /\ mptt_updates_enabled

\* A block has raised after recording a tree whose rebuild would have
\* changed the table.
C17_Witness ==
    /\ last.op = "delay_abort"
    /\ last.recorded # {}
    /\ \E t \in last.recorded : partial_rebuild(Db(store, FALSE, {}), t).db.store # store

\* The call observed is _create_space or _close_gap; Signed is the amount
\* the call asks the values after the target point to change by.
SpaceOp == last.op \in {"create_space", "close_gap"}

Signed == IF last.op = "close_gap" THEN -last.size ELSE last.size

\* C19: while a delayed-update scope is tracking, create_space and close_gap
\* on a tree record that tree_id as modified and change no stored left or
\* right value; outside such a scope they record nothing and shift the
\* values of the tree that are after the target point.
C19_SpaceOrRecord ==
    SpaceOp =>
        IF mptt_is_tracking
        THEN /\ tracked = last.recorded \cup {last.tree_id}
             /\ store = prev
        ELSE /\ tracked = last.recorded
             /\ tracked = {}
             /\ DOMAIN store = DOMAIN prev
             /\ \A k \in DOMAIN prev :
                    store[k] = IF prev[k].tree_id = last.tree_id
                               THEN [prev[k] EXCEPT
                                       !.lft = ShiftAbove(@, last.target, Signed),
                                       !.rght = ShiftAbove(@, last.target, Signed)]
                               ELSE prev[k]

\* close_gap has been called, while tracking, for a tree that was not yet
\* recorded and has values after the target point.
C19_Witness ==
    /\ last.op = "close_gap"
    /\ mptt_is_tracking
    /\ last.recorded # {}
    /\ last.tree_id \notin last.recorded
    /\ \E k \in DOMAIN prev : prev[k].tree_id = last.tree_id /\ prev[k].rght > last.target

\* C18: while a disable_mptt_updates scope is active and no delayed scope is
\* tracking, the space operations insert_node triggers (create_space,
\* create_tree_space) change no stored left, right or tree_id value.
C18_DisabledNoOp ==
    (last.op = "insert_node" /\ ~mptt_updates_enabled /\ ~mptt_is_tracking) =>
        \A k \in DOMAIN prev :
            /\ store[k].lft = prev[k].lft
            /\ store[k].rght = prev[k].rght
            /\ store[k].tree_id = prev[k].tree_id

\* C20: while a delayed-update scope is tracking, move_node(node, target,
\* position) with target equal to node or a descendant of node raises
\* InvalidMove before any value of node or of the table is changed, as in
\* immediate mode.
C20_InvalidMoveWhileTracking ==
    (MoveCall /\ mptt_is_tracking
        /\ (last.target = last.node \/ IsDescendant(prev, last.target, last.node)))
        => (last.err = "InvalidMove" /\ store = prev)

\* C21: insert_node, move_node and build_tree_nodes called with a position
\* outside first-child, last-child, left and right raise the invalid-position
\* error (ValueError) for every target, None and roots included, and leave
\* the table as it was.
C21_InvalidPositionRaises ==
    last.position \notin Positions => last.err = "ValueError" /\ store = prev

\* The call observed entered, or tried to enter, a scope.
EnteredScope == last.op \in {"disable_mptt_updates", "delay_mptt_updates"}

\* C22: disable_mptt_updates and delay_mptt_updates called on a model that is
\* abstract, is a proxy, or is not the model that holds the tree fields raise
\* CantDisableUpdates instead of running the block, and the updates-enabled
\* flag and the tracking flag stay as they were.
C22_CantDisableUpdates ==
    (EnteredScope /\ (last.model.abstract \/ last.model.proxy \/ ~last.model.owner))
    => /\ last.err = "CantDisableUpdates"
       /\ mptt_updates_enabled = last.enabled
       /\ mptt_is_tracking = last.tracking

\* delay_mptt_updates was refused on a proxy of the model that holds the tree
\* fields, outside any scope, with nodes stored.
C22_Witness ==
    /\ last.op = "delay_mptt_updates"
    /\ last.model = [abstract |-> FALSE, proxy |-> TRUE, owner |-> TRUE]
    /\ last.err = "CantDisableUpdates"
    /\ mptt_updates_enabled /\ ~mptt_is_tracking
    /\ store # EmptyStore

\* C23: outside every scope create_space(size, target, tree_id) adds size to
\* exactly the left values and exactly the right values of tree tree_id that
\* are greater than target, and changes nothing else: no value that is not
\* greater than target, no level, tree_id or parent, no node of another
\* tree; close_gap does the same with -size.
C23_SpaceFrame ==
    (SpaceOp /\ mptt_updates_enabled /\ ~mptt_is_tracking) =>
        /\ DOMAIN store = DOMAIN prev
        /\ \A k \in DOMAIN prev :
              LET in_tree == prev[k].tree_id = last.tree_id
              IN  /\ store[k].lft - prev[k].lft =
                        (IF in_tree /\ prev[k].lft > last.target THEN Signed ELSE 0)
                  /\ store[k].rght - prev[k].rght =
                        (IF in_tree /\ prev[k].rght > last.target THEN Signed ELSE 0)
                  /\ store[k].level = prev[k].level
                  /\ store[k].tree_id = prev[k].tree_id
                  /\ store[k].parent = prev[k].parent

\* create_space has been called outside every scope with a target point
\* inside a node of the tree: the node's right is after the point and its
\* left is not, a node of the tree lies wholly before the point, and another
\* tree is stored.
C23_Witness ==
    /\ last.op = "create_space"
    /\ mptt_updates_enabled /\ ~mptt_is_tracking
    /\ \E k \in DOMAIN prev :
          /\ prev[k].tree_id = last.tree_id
          /\ prev[k].lft <= last.target /\ prev[k].rght > last.target
          /\ store[k].lft = prev[k].lft /\ store[k].rght = prev[k].rght + last.size
    /\ \E k \in DOMAIN prev : prev[k].tree_id = last.tree_id /\ prev[k].rght <= last.target
    /\ \E k \in DOMAIN prev : prev[k].tree_id # last.tree_id

\* The call observed is _create_tree_space.
TreeSpaceOp == last.op = "create_tree_space"

\* C24: create_tree_space(t, n) adds n to the tree_id of every node whose
\* tree_id is greater than t and changes no other field and no other node;
\* afterwards the ids t+1..t+n are unused, two nodes share a tree_id exactly
\* when they did before, and the order of the tree ids of any two nodes is
\* the order they had before.
C24_TreeSpace ==
    TreeSpaceOp =>
        LET t == last.target_tree_id
            n == last.num_trees
        IN  /\ DOMAIN store = DOMAIN prev
            /\ \A k \in DOMAIN prev :
                  store[k] = [prev[k] EXCEPT
                                !.tree_id = IF prev[k].tree_id > t THEN prev[k].tree_id + n
                                            ELSE prev[k].tree_id]
            /\ TreeIdsOf(store) \cap ((t + 1)..(t + n)) = {}
            /\ \A a, b \in DOMAIN prev :
                  /\ (store[a].tree_id = store[b].tree_id) <=> (prev[a].tree_id = prev[b].tree_id)
                  /\ (store[a].tree_id < store[b].tree_id) <=> (prev[a].tree_id < prev[b].tree_id)

\* create_tree_space has made room for two trees between stored trees: a tree
\* of two nodes moved up by two, a tree before the point stayed.
C24_Witness ==
    /\ TreeSpaceOp
    /\ last.num_trees = 2
    /\ \E a, b \in DOMAIN prev :
          /\ a # b
          /\ prev[a].tree_id = prev[b].tree_id
          /\ prev[a].tree_id > last.target_tree_id
          /\ store[a].tree_id = prev[a].tree_id + 2
    /\ \E k \in DOMAIN prev : prev[k].tree_id <= last.target_tree_id

\* The call observed inserted a new node with a target of None.
InsertedRoot == Inserted /\ last.target = None

\* C25: with sequential root ordering insert_node(node, target=None) stores
\* node with left 1, right 2, level 0, no parent and a tree_id one more than
\* the largest tree_id stored before the call (1 in an empty table), and
\* changes no node that was stored.
C25_InsertRoot ==
    InsertedRoot =>
        /\ DOMAIN store = DOMAIN prev \cup {last.node}
        /\ last.node \notin DOMAIN prev
        /\ store[last.node] =
              [parent |-> None, lft |-> 1, rght |-> 2, level |-> 0,
               tree_id |-> IF DOMAIN prev = {} THEN 1 ELSE Max(TreeIdsOf(prev)) + 1]
        /\ \A k \in DOMAIN prev : store[k] = prev[k]

\* A root has been inserted into a table that held two trees, one of them
\* with a child.
C25_Witness ==
    /\ InsertedRoot
    /\ Cardinality(TreeIdsOf(prev)) = 2
    /\ \E k \in DOMAIN prev : prev[k].parent # None
    /\ store[last.node].tree_id = 3

\* The call observed is a rebuild with root ordering enabled; Filter is its
\* tree_id filter (None: no filter) and Base the tree id its first root gets.
RebuiltOrdered ==
    last.op \in {"rebuild", "rebuild_filtered"} /\ last.root_node_ordering

Filter == IF last.op = "rebuild_filtered" THEN last.tree_id ELSE None

Base == IF Filter = None THEN 1 ELSE Filter

\* The rows the rebuild reads: all rows, or the rows with the filtered tree_id.
Population(s) == {k \in DOMAIN s : Matches(s, k, Filter)}

\* The number of roots of the population read before the root r.
RootRank(s, r) ==
    Cardinality({j \in Roots(s) \cap Population(s) :
                    \/ OrderedBefore(s, j, r)
                    \/ s[j].tree_id = s[r].tree_id /\ s[j].lft = s[r].lft /\ j < r})

\* S and the rows of the population linked to S by parents in the population.
RECURSIVE ReachedIn(_, _, _)
ReachedIn(s, S, n) ==
    IF n = 0 THEN S
    ELSE ReachedIn(s, S \cup {k \in Population(s) : s[k].parent \in S}, n - 1)

\* The k-th root of the population and the rows reached from it carry the
\* tree id Base + k.
NumberedFromBase ==
    \A r \in Roots(prev) \cap Population(prev) :
        \A k \in ReachedIn(prev, {r}, Cardinality(DOMAIN prev)) :
            store[k].tree_id = Base + RootRank(prev, r)

\* C26 as stated: with root ordering enabled rebuild gives the k-th root of
\* the (filtered) population, and the nodes reached from it, the tree_id
\* base + k, base being 1 or the tree_id filter; and after the rebuild,
\* filtered or not, no two roots of the table share a tree_id.
C26_RebuildTreeIds ==
    RebuiltOrdered => NumberedFromBase /\ RootsDistinct(store)

\* C26 amended: the k-th root of the population and the rows of the population
\* reached from it get base + k; after a rebuild without filter no two roots
\* of the table share a tree_id; after a filtered rebuild the rows outside
\* the population are unchanged and the roots of the population carry
\* different tree ids, which rows outside the population may carry too.
C26_RebuildTreeIdsOfPopulation ==
    RebuiltOrdered =>
        /\ NumberedFromBase
        /\ Filter = None => RootsDistinct(store)
        /\ Filter # None =>
              /\ \A k \in DOMAIN prev \ Population(prev) : store[k] = prev[k]
              /\ \A a, b \in Roots(prev) \cap Population(prev) :
                    a # b => store[a].tree_id # store[b].tree_id

\* A filtered rebuild has numbered two roots of the filtered tree_id, the
\* second with a child, and the second now shares its tree_id with a root
\* outside the population.
C26_Witness ==
    /\ last.op = "rebuild_filtered"
    /\ \E a, b \in Roots(prev) \cap Population(prev) :
          /\ store[a].tree_id = Base /\ store[b].tree_id = Base + 1
          /\ \E c \in Population(prev) : prev[c].parent = b /\ store[c].tree_id = Base + 1
          /\ \E d \in Roots(prev) \ Population(prev) : store[d].tree_id = store[b].tree_id

Built == last.op = "build_tree_nodes"

BuiltNode(pk) == last.nodes[CHOOSE i \in 1..Len(last.nodes) : last.nodes[i].pk = pk]

\* The keys of a description, every node before its children, the children
\* in the given order.
RECURSIVE Preorder(_)
RECURSIVE PreorderAll(_, _)
Preorder(data) == <<data.pk>> \o PreorderAll(data.children, 1)

PreorderAll(children, i) ==
    IF i > Len(children) THEN <<>>
    ELSE Preorder(children[i]) \o PreorderAll(children, i + 1)

\* A description and all the descriptions nested in it.
RECURSIVE Parts(_)
Parts(data) == {data} \cup UNION {Parts(data.children[i]) : i \in 1..Len(data.children)}

\* Where the anchor puts the first node: the first value it takes, its level
\* and its tree.
StartCursor ==
    IF last.target = None THEN 1 ELSE Boundary(prev, last.target, last.position) + 1

StartLevel ==
    IF last.target = None THEN 0 ELSE NewLevel(prev, last.target, last.position)

StartTree ==
    IF last.target # None THEN prev[last.target].tree_id
    ELSE IF DOMAIN prev = {} THEN 1 ELSE Max(TreeIdsOf(prev)) + 1

\* C28: build_tree_nodes on a nested description of n nodes returns the n
\* nodes in pre-order, all with one tree_id, with left and right values that
\* are exactly the 2n consecutive integers from the start cursor, nested as
\* the description is (a child's interval strictly inside its parent's, the
\* children left to right in the given order) and with level equal to the
\* start level plus depth.  With a target it performs one create_space of
\* width 2n at start cursor - 1 in the target's tree (the values after that
\* point move up by 2n, or while tracking the tree is recorded); with a target
\* of None it writes nothing.
C28_BuildTreeNodes ==
    Built =>
        LET n == Cardinality(Parts(last.data))
            nodes == last.nodes
        IN  /\ last.err = "ok"
            /\ [i \in 1..Len(nodes) |-> nodes[i].pk] = Preorder(last.data)
            /\ Len(nodes) = n
            /\ \A i \in 1..n : nodes[i].tree_id = StartTree
            /\ {nodes[i].lft : i \in 1..n} \cup {nodes[i].rght : i \in 1..n}
                  = StartCursor..(StartCursor + 2 * n - 1)
            /\ BuiltNode(last.data.pk).level = StartLevel
            /\ \A i \in 1..n : nodes[i].lft < nodes[i].rght
            /\ \A d \in Parts(last.data) : \A i \in 1..Len(d.children) :
                  LET p == BuiltNode(d.pk)
                      c == BuiltNode(d.children[i].pk)
                  IN  /\ p.lft < c.lft /\ c.rght < p.rght
                      /\ c.level = p.level + 1
                      /\ i > 1 => BuiltNode(d.children[i - 1].pk).rght < c.lft
            /\ IF last.target = None \/ mptt_is_tracking
               THEN store = prev
               ELSE /\ DOMAIN store = DOMAIN prev
                    /\ \A k \in DOMAIN prev :
                          store[k] = IF prev[k].tree_id = StartTree
                                     THEN [prev[k] EXCEPT
                                             !.lft = ShiftAbove(@, StartCursor - 1, 2 * n),
                                             !.rght = ShiftAbove(@, StartCursor - 1, 2 * n)]
                                     ELSE prev[k]
            /\ tracked = IF last.target # None /\ mptt_is_tracking
                         THEN last.recorded \cup {StartTree} ELSE last.recorded

\* build_tree_nodes has built a node with two children as the first child of
\* a stored root, outside a scope: the root made room for six values after
\* its left.
C28_Witness ==
    /\ Built
    /\ ~mptt_is_tracking
    /\ last.target # None /\ last.position = "first-child"
    /\ Len(last.data.children) = 2
    /\ Len(last.nodes) = 3
    /\ store[last.target].lft = prev[last.target].lft
    /\ store[last.target].rght = prev[last.target].rght + 6
    /\ last.nodes[3].lft = prev[last.target].lft + 4

\* What insert_node(node, target, position, save=True) does, outside every
\* scope, to the table the observed build_tree_nodes call was made on.
InsertedInstead ==
    insert_node(Db(prev, FALSE, {}), NewNode,
                IF last.target = None THEN NewNode ELSE Load(prev, last.target),
                last.position, TRUE, FALSE, TRUE)

\* C29: outside every scope, for every target (root or not) and each of the
\* four positions, and for a target of None, build_tree_nodes on a
\* description of one node gives the node the left, right, level and tree_id
\* that insert_node(save=True) with the same target and position gives it,
\* and leaves the stored nodes with the values insert_node leaves them with.
C29_BuildAsInsert ==
    (Built /\ ~mptt_is_tracking /\ Len(last.nodes) = 1) =>
        LET built == last.nodes[1]
            r == InsertedInstead
        IN  /\ r.err = last.err
            /\ built.lft = r.node.lft
            /\ built.rght = r.node.rght
            /\ built.level = r.node.level
            /\ built.tree_id = r.node.tree_id
            /\ \A k \in DOMAIN prev : store[k] = r.db.store[k]

\* The parent references of a description agree with its nesting: the first
\* node names no parent, every other node names the node it is nested in.
Linked(data) ==
    /\ data.parent = None
    /\ \A d \in Parts(data) : \A i \in 1..Len(d.children) : d.children[i].parent = d.pk

\* The tables rebuild() leaves when the nodes the observed call returned have
\* been stored, for either setting of root_node_ordering.
StoredAndRebuilt ==
    LET stored == bulk_create(Db(store, FALSE, {}), last.nodes)
    IN  {rebuild(stored, None, TRUE, <<>>).store} \cup
        {rebuild(stored, None, FALSE, uuids).store : uuids \in Draws(stored.store)}

\* C30: for a description built with a target of None whose parent references
\* agree with its nesting (the children of a node are then read by rebuild in
\* the order of their left values, the order of the description), storing
\* the nodes build_tree_nodes returned and running rebuild() gives each of
\* them the left, right and level build_tree_nodes gave it.
C30_BuildThenRebuild ==
    (Built /\ last.target = None /\ Linked(last.data)) =>
        \A s \in StoredAndRebuilt : \A i \in 1..Len(last.nodes) :
            LET node == last.nodes[i]
            IN  /\ s[node.pk].lft = node.lft
                /\ s[node.pk].rght = node.rght
                /\ s[node.pk].level = node.level

\* A node with two children has been built as a new tree, with parent
\* references, next to a stored tree.
C30_Witness ==
    /\ Built
    /\ last.target = None
    /\ Linked(last.data)
    /\ Len(last.data.children) = 2
    /\ DOMAIN prev # {}
    /\ last.nodes[3].parent = last.nodes[1].pk
    /\ last.nodes[3].lft = 4 /\ last.nodes[3].level = 1

\* The nested-set invariants of every tree of the table s.
NestedSets(s) ==
    /\ IntervalsCover(s)
    /\ ContainmentIsDescent(s)
    /\ OneRootPerTree(s)
    /\ LevelsAreDepths(s)

\* A move_node call has sent some of its statements and not yet the last, or
\* has failed there.
MoveUnfinished == last.op = "move_node" /\ last.err \in {"running", "OperationalError"}

\* C31 as stated: every move case changes the store in one atomic update, so
\* no reader or writer interleaved with a move_node call, and no failure
\* between two of its steps, finds the nested-set invariants of a tree broken.
C31_AtomicMoves == NestedSets(store)

\* C31 amended: a move_node call sends one to three statements (the space or
\* tree-id shift, the update that moves the subtree, the save of the node).
\* The invariants hold when no call is unfinished, and the table a finished
\* call leaves is the table of the call taken as one step.  Between the
\* statements only this is kept: a call with a single update before its save
\* keeps the left and right values of every tree exactly 1..2N.
C31_MovesInStatements ==
    /\ ~MoveUnfinished => NestedSets(store)
    /\ last.op = "move_node" =>
          LET q == RunningStatements
          IN  /\ Len(q) \in 1..3
              /\ last.statements \in 1..Len(q)
              /\ store = q[last.statements].store
              /\ last.err = "ok" <=> last.statements = Len(q)
              /\ last.err = "ok" =>
                    store = move_node(Db(prev, FALSE, {}), Load(prev, last.node),
                                      IF last.target = None THEN NewNode
                                      ELSE Load(prev, last.target),
                                      last.position).db.store
              /\ Len(q) <= 2 => IntervalsCover(store)

\* A move of a child into another tree has failed after its first statement:
\* the target tree holds a gap and the values of the tree are not 1..2N.
C31_Witness ==
    /\ last.op = "move_node" /\ last.err = "OperationalError"
    /\ last.statements = 1
    /\ Len(RunningStatements) = 3
    /\ prev[last.node].parent # None
    /\ last.target # None
    /\ prev[last.node].tree_id # prev[last.target].tree_id
    /\ ~IntervalsCover(store)
    /\ NestedSets(prev)

\* insert_node or move_node has placed last.node relative to a stored target,
\* in a case that is not handed to the root-sibling handling.
Placed ==
    /\ last.op \in {"insert_node", "move_node"}
    /\ last.err = "ok"
    /\ last.target # None
    /\ ~(prev[last.target].parent = None /\ last.position \in {"left", "right"})

\* The children of node k in table s.
ChildrenOf(s, k) == {c \in DOMAIN s : s[c].parent = k}

\* a stands left of b among the children of one parent (among the roots: in
\* tree order).
LeftOf(s, a, b) ==
    IF s[a].parent = None THEN s[a].tree_id < s[b].tree_id ELSE s[a].lft < s[b].lft

\* C32: in immediate mode, after insert_node(save=True) or move_node places
\* node X relative to target T (root-sibling cases aside): with first-child X
\* is a child of T with X.left = T.left + 1, the smallest left among T's
\* children; with last-child X is a child of T with X.right = T.right - 1, the
\* largest right among T's children; with left X has T's parent and
\* X.right = T.left - 1; with right X has T's parent and X.left = T.right + 1;
\* and the left-to-right order of all other siblings is unchanged.
C32_PlacedAtPosition ==
    Placed =>
        LET X == store[last.node]
            T == store[last.target]
        IN  /\ CASE last.position = "first-child" ->
                      /\ X.parent = last.target
                      /\ X.lft = T.lft + 1
                      /\ \A c \in ChildrenOf(store, last.target) : X.lft <= store[c].lft
                 [] last.position = "last-child" ->
                      /\ X.parent = last.target
                      /\ X.rght = T.rght - 1
                      /\ \A c \in ChildrenOf(store, last.target) : store[c].rght <= X.rght
                 [] last.position = "left" ->
                      /\ X.parent = T.parent
                      /\ X.rght = T.lft - 1
                 [] last.position = "right" ->
                      /\ X.parent = T.parent
                      /\ X.lft = T.rght + 1
            /\ X.tree_id = T.tree_id
            /\ \A a, b \in DOMAIN prev \ {last.node} :
                  /\ store[a].parent = prev[a].parent
                  /\ (a # b /\ prev[a].parent = prev[b].parent) =>
                        (LeftOf(store, a, b) <=> LeftOf(prev, a, b))

\* Each position has been used by a move that changed the table, between
\* siblings that stay: a node moved to the left of a target that has an
\* earlier sibling, and a node inserted as first child of a parent with a child.
C32_Witness ==
    /\ Placed
    /\ \/ /\ last.op = "move_node" /\ last.position = "left" /\ prev # store
          /\ \E c \in Siblings(store, last.target) :
                c # last.node /\ store[c].lft < store[last.target].lft
          /\ prev[last.node].parent # store[last.node].parent
       \/ /\ last.op = "insert_node" /\ last.position = "first-child"
          /\ Cardinality(ChildrenOf(prev, last.target)) = 2

\* The result of _move_node for the call observed, made on the table before
\* the call: the table after its statements and the node object it leaves.
MovedInMemory ==
    move_node_inner(Db(prev, FALSE, {}), Load(prev, last.node),
                    IF last.target = None THEN NewNode ELSE Load(prev, last.target),
                    last.position, TRUE, TRUE)

\* C33: after each successful immediate-mode move_node call (detach, root
\* reorder, root graft, within-tree move, cross-tree move, the no-op early
\* returns) the left, right, level, tree_id and parent of the moved node
\* object equal the values stored for that node: the tree fields of the object
\* _move_node leaves are those its statements wrote to the node's row, and the
\* row after the save, which writes the parent, is the object.
C33_NodeObjectInSync ==
    (last.op = "move_node" /\ last.err = "ok") =>
        LET r == MovedInMemory
        IN  /\ r.err = "ok"
            /\ r.node.pk = last.node
            /\ r.node.lft = r.db.store[last.node].lft
            /\ r.node.rght = r.db.store[last.node].rght
            /\ r.node.level = r.db.store[last.node].level
            /\ r.node.tree_id = r.db.store[last.node].tree_id
            /\ RowOf(r.node) = store[last.node]
            /\ \A k \in DOMAIN store \ {last.node} : store[k] = r.db.store[k]

\* A child of a later tree has been made the left sibling of a root: the tree
\* id of its own tree was shifted before it was detached, and the node object
\* has a new left, right, level, tree_id and parent.
C33_Witness ==
    /\ RootSiblingCall /\ last.err = "ok" /\ last.position = "left"
    /\ prev[last.node].parent # None
    /\ prev[last.node].tree_id > prev[last.target].tree_id
    /\ prev[last.node].lft > 2
    /\ MovedInMemory.node.tree_id = prev[last.target].tree_id
    /\ store[last.node] = [parent |-> None, lft |-> 1, rght |-> 2, level |-> 0,
                           tree_id |-> prev[last.target].tree_id]

\* The object reached from object k by following n cached parents (None when
\* the chain ends before).
RECURSIVE CachedAncestor(_, _, _)
CachedAncestor(objects, k, n) ==
    IF n = 0 \/ k = None THEN k ELSE CachedAncestor(objects, objects[k].parent, n - 1)

\* The objects on the cached parent chain of k, k included.
CachedChain(objects, k) ==
    {CachedAncestor(objects, k, n) : n \in 0..Cardinality(DOMAIN objects)} \ {None}

\* The cached parent chain of k ends: it holds no cycle.
CachedChainEnds(objects, k) ==
    CachedAncestor(objects, k, Cardinality(DOMAIN objects)) = None

Propagated == last.op = "post_insert_update_cached_parent_right"

\* C34: the cached-ancestor right propagation run by insert_node terminates
\* for every cached parent graph: on an acyclic chain it adds right_shift
\* exactly once to the in-memory right of the new parent and of each of its
\* cached ancestors and to no other object; on a chain that holds a cycle it
\* raises InvalidMove after updating each instance at most once.
C34_CachedRightPropagation ==
    Propagated =>
        LET before == last.objects
            after == last.updated
            chain == CachedChain(before, last.instance)
        IN  /\ DOMAIN after = DOMAIN before
            /\ \A k \in DOMAIN before :
                  /\ after[k].parent = before[k].parent
                  /\ k \notin chain => after[k].rght = before[k].rght
            /\ IF CachedChainEnds(before, last.instance)
               THEN /\ last.err = "ok"
                    /\ \A k \in chain : after[k].rght = before[k].rght + last.right_shift
               ELSE /\ last.err = "InvalidMove"
                    /\ \A k \in chain :
                          after[k].rght \in {before[k].rght,
                                             before[k].rght + last.right_shift}

\* The propagation has walked a chain of three objects and has left alone the
\* fourth, whose cached parent is the first of the chain.
C34_Witness ==
    /\ Propagated
    /\ last.err = "ok"
    /\ Cardinality(CachedChain(last.objects, last.instance)) = 3
    /\ \E k \in DOMAIN last.objects :
          /\ k \notin CachedChain(last.objects, last.instance)
          /\ last.objects[k].parent = last.instance
          /\ last.updated[k] = last.objects[k]

\* The propagation has met a cycle that is entered from outside it.
CycleMet ==
    /\ Propagated
    /\ last.err = "InvalidMove"
    /\ Cardinality(CachedChain(last.objects, last.instance)) = 3
    /\ \A k \in DOMAIN last.objects : last.objects[k].parent # last.instance

\* The outermost delayed scope has just been left, by any path.
DelayedScopeLeft == last.op \in {"delay_exit", "delay_abort", "delay_interrupt"}

\* C35: after the outermost disable_mptt_updates or delay_mptt_updates scope
\* exits by any path (normal completion, or any exception raised in the
\* block, exceptions that are no subclasses of Exception included) the
\* updates-enabled flag is true again and the model is no longer tracking;
\* and updates stay disabled for the whole of the outermost scope: the model
\* tracks only while updates are disabled.
C35_ScopeExitRestoresFlags ==
    /\ DelayedScopeLeft => (mptt_updates_enabled /\ ~mptt_is_tracking)
    /\ mptt_is_tracking => ~mptt_updates_enabled

\* An exit of a scope has been observed: of an inner scope, or of the
\* outermost delayed scope.
ScopeLeft == last.op \in {"nested_exit", "delay_exit", "delay_abort"}

\* C36: nested scopes are no-ops: entering delay_mptt_updates while already
\* tracking, or disable_mptt_updates while updates are already disabled,
\* changes no flag, and exiting such an inner scope (cleanly or by an error the
\* caller catches before it reaches the outer scope) neither re-enables
\* updates, nor stops tracking, nor discards recorded tree ids, nor runs any
\* partial rebuild; rebuilds run only when the outermost delayed scope exits
\* cleanly.
C36_NestedScopesAreNoOps ==
    /\ last.op \in {"nested_enter", "nested_exit"} =>
          /\ mptt_updates_enabled = last.enabled
          /\ ~mptt_updates_enabled
          /\ mptt_is_tracking = last.tracking
          /\ tracked = last.recorded
          /\ store = prev
    /\ last.op = "nested_exit" => (last.calls = <<>> /\ last.err = last.raised)
    /\ (ScopeLeft /\ (last.calls # <<>> \/ store # prev)) =>
          (last.op = "delay_exit" /\ last.raised = "ok")

\* An inner delayed scope has been left by an error inside a delayed scope
\* that has recorded two trees: the model still tracks both.
C36_Witness ==
    /\ last.op = "nested_exit"
    /\ last.kind = "delay_mptt_updates"
    /\ last.raised = "InvalidMove"
    /\ mptt_is_tracking
    /\ Cardinality(tracked) = 2
    /\ \E k \in DOMAIN store : store[k].lft = None \/ ~NestedSets(store)

\* insert_node has made a new root beside a stored root.
InsertedBesideRoot ==
    /\ Inserted /\ last.target # None
    /\ prev[last.target].parent = None
    /\ last.position \in {"left", "right"}

\* C37: insert_node(node, target, position) with target a root and position
\* left or right gives the new root a tree_id no other tree uses after the
\* call, so one root per tree_id still holds once node is saved, for both
\* positions, with sequential root ordering and with generated tree keys.
C37_NewRootTreeIdUnused ==
    InsertedBesideRoot =>
        /\ store[last.node].parent = None
        /\ \A k \in DOMAIN store \ {last.node} : store[k].tree_id # store[last.node].tree_id
        /\ OneRootPerTree(store)

\* With generated keys the new root has been put to the right of a root.
KeyedRootOnRight ==
    /\ InsertedBesideRoot /\ last.position = "right"
    /\ store[last.node].tree_id \in Uuids
    /\ Cardinality(DOMAIN store) = 3

====
